---- MODULE Spec2Model ----
(***************************************************************************)
(* Evidex grounded-answer pipeline (evidex/graph.py, evidex/llm.py,        *)
(* evidex/qa.py, evidex/api/routes.py).                                    *)
(*                                                                         *)
(* A text is modelled by the set of word tokens it contains; the keyword   *)
(* and entity extractors are modelled by what their regular expressions    *)
(* select from those tokens.  A prompt is modelled by the evidence IDs it  *)
(* labels.  A workflow-state dict is a function from its keys.            *)
(***************************************************************************)
EXTENDS Integers, Sequences, FiniteSets, TLC

VARIABLES
    pc,                              \* node about to run / "raised" / "END" / "responded"
    document,                        \* state["document"] (name of an immutable Document)
    paragraph_ids,                   \* state["paragraph_ids"]
    question,                        \* state["question"]
    include_debug,                   \* state["include_debug"]
    candidate_paragraph_ids,         \* state["candidate_paragraph_ids"]
    planner_selected_automatically,  \* state["planner_selected_automatically"]
    planner_reason,                  \* state["planner_reason"]
    paragraphs,                      \* state["paragraphs"]
    equations,                       \* state["equations"]
    llm_response,                    \* state["llm_response"]
    final_response,                  \* state["final_response"]
    verification_passed,             \* state["verification_passed"]
    verifier_reason,                 \* state["verifier_reason"]
    linked_evidence,                 \* state["linked_evidence"]
    composed_explanation,            \* state["composed_explanation"]
    composer_verification_passed,    \* state["composer_verification_passed"]
    composer_reason,                 \* reason returned by verify_composed_explanation
    call_history,                    \* llm.call_history: the prompts sent
    client_log,                      \* what the model client did on each call
    exception,                       \* the exception that ended the run, if any
    http,                            \* the response of POST /explain
    raw_text,                        \* a model text handed to the object extractor
    parse_result,                    \* what the extractor returned or raised for it
    ingest_input,                    \* a model PDF or a hand-built document
    ingest_result,                   \* what ingestion returned or raised for it
    registry,                        \* DOCUMENT_REGISTRY._entries
    files,                           \* the documents whose stored PDF exists
    tasks,                           \* the background ingestion tasks added so far
    lock,                            \* DOCUMENT_REGISTRY._lock: the task holding it, or 0
    reader,                          \* a get_document_or_404 call in progress
    reply                            \* the last response of a document route

vars == <<pc, document, paragraph_ids, question, include_debug,
          candidate_paragraph_ids, planner_selected_automatically,
          planner_reason, paragraphs, equations, llm_response, final_response,
          verification_passed, verifier_reason, linked_evidence,
          composed_explanation, composer_verification_passed, composer_reason,
          call_history, client_log, exception, http, raw_text,
          parse_result, ingest_input, ingest_result, registry, files, tasks,
          lock, reader, reply>>

(***************************************************************************)
(* Bounds of the model                                                     *)
(***************************************************************************)
MaxCitations == 2      \* longest citation list a model answer carries
MaxSentences == 2      \* longest sentence list a composed narrative carries

(***************************************************************************)
(* Generic helpers                                                         *)
(***************************************************************************)
SeqsUpTo(S, n) == UNION {[1..k -> S] : k \in 0..n}

Range(s) == {s[i] : i \in DOMAIN s}

RECURSIVE FilterSeq(_, _)
\* [x for x in s if x in S]
FilterSeq(s, S) ==
    IF s = <<>> THEN <<>>
    ELSE IF Head(s) \in S THEN <<Head(s)>> \o FilterSeq(Tail(s), S)
         ELSE FilterSeq(Tail(s), S)

RECURSIVE Flatten(_)
Flatten(ss) == IF ss = <<>> THEN <<>> ELSE Head(ss) \o Flatten(Tail(ss))

NoDict == [k \in {} |-> ""]

\* dict.get(key, default)
Get(d, k, default) == IF k \in DOMAIN d THEN d[k] ELSE default

\* dict(d) with d[k] = v
Put(d, k, v) == [x \in DOMAIN d \cup {k} |-> IF x = k THEN v ELSE d[x]]

(***************************************************************************)
(* Texts, keywords and entities                                            *)
(***************************************************************************)
NOT_DEFINED == "Not defined in the paper"

\* str.lower() on the tokens of the model
Lower(t) ==
    CASE t = "What" -> "what"
      [] t = "Attention" -> "attention"
      [] t = "Q" -> "q"
      [] t = "K" -> "k"
      [] OTHER -> t

\* the stop words of extract_keywords that occur in the model's texts
STOP_WORDS == {"what", "is", "the", "paper", "defined"}

\* re.findall(r'\b[a-zA-Z0-9]{2,}\b', text.lower()) minus the stop words
extract_keywords(text) ==
    {Lower(t) : t \in {u \in text : Len(u) >= 2}} \ STOP_WORDS

\* the tokens of the model that _VARIABLE_REGEX matches (re.IGNORECASE)
VariableTokens == {"Q", "K", "V", "layer"}

\* the members of CONCEPT_KEYWORDS that occur in the model's texts
CONCEPT_KEYWORDS == {"attention", "encoder", "decoder", "layer", "softmax", "query"}

extract_variables(text) == text \cap VariableTokens

extract_concepts(text) == {Lower(t) : t \in text} \cap CONCEPT_KEYWORDS

extract_entities_as_model(text) ==
    [variables |-> extract_variables(text), concepts |-> extract_concepts(text)]

(***************************************************************************)
(* Documents                                                               *)
(***************************************************************************)
NoEntities == [present |-> FALSE, variables |-> {}, concepts |-> {}]

Para(id, text, refs, ents) ==
    [paragraph_id |-> id, text |-> text, equation_refs |-> refs, entities |-> ents]

P_s1_p1 == Para("s1_p1", {"Attention", "uses", "Q", "K", "the"}, <<"eq1">>, NoEntities)
P_s1_p2 == Para("s1_p2", {"the", "encoder", "layer"}, <<"eq1">>,
                [present |-> TRUE, variables |-> {}, concepts |-> {"encoder", "layer"}])
P_s2_p1 == Para("s2_p1", {"unrelated", "text"}, <<>>, NoEntities)

Eq_eq1 == [equation_id |-> "eq1", equation_text |-> {"Attention", "Q", "K", "softmax"},
           associated_paragraph_id |-> "s1_p1"]

DocumentNames == {"attention_paper", "plain_paper"}

\* the paragraph IDs of a document with more matching paragraphs than the
\* Planner selects
LongIds == <<"s3_p1", "s3_p2", "s3_p3", "s3_p4", "s3_p5", "s3_p6", "s3_p7", "s3_p8",
             "s3_p9", "s3_p10", "s3_p11", "s3_p12">>

\* every paragraph mentions attention, every third one the encoder too
LongParagraphs ==
    [i \in DOMAIN LongIds |->
        Para(LongIds[i],
             IF i % 3 = 0 THEN {"Attention", "the", "encoder"} ELSE {"attention", "is"},
             <<>>, NoEntities)]

\* a document whose paragraphs refer to equations of other paragraphs and to
\* an equation that does not exist
Eq_eq2 == [equation_id |-> "eq2", equation_text |-> {"softmax", "V"},
           associated_paragraph_id |-> "s2_p1"]

EquationParagraphs ==
    << <<[P_s1_p1 EXCEPT !.equation_refs = <<"eq2", "eq9">>],
         [P_s1_p2 EXCEPT !.equation_refs = <<"eq1", "eq2">>]>>,
       <<P_s2_p1>> >>

\* Document(title, sections, equations)
Document(name) ==
    IF name = "attention_paper"
    THEN [sections |-> << <<P_s1_p1, P_s1_p2>>, <<P_s2_p1>> >>, equations |-> <<Eq_eq1>>]
    ELSE IF name = "equation_paper"
    THEN [sections |-> EquationParagraphs, equations |-> <<Eq_eq1, Eq_eq2>>]
    ELSE IF name = "long_paper"
    THEN [sections |-> << SubSeq(LongParagraphs, 1, 5),
                          SubSeq(LongParagraphs, 6, Len(LongParagraphs)) >>,
          equations |-> <<>>]
    ELSE [sections |-> << <<[P_s1_p1 EXCEPT !.equation_refs = <<>>], P_s2_p1>> >>,
          equations |-> <<>>]

AllParagraphs(doc) == Flatten(doc.sections)

ParagraphIdsOf(doc) == {p.paragraph_id : p \in Range(AllParagraphs(doc))}
EquationIdsOf(doc) == {e.equation_id : e \in Range(doc.equations)}

UnknownId == "s99_p99"

\* the IDs a caller or the model may name
IdUniverse == {"s1_p1", "s1_p2", "eq1", UnknownId}

Questions == {{"What", "is", "attention"}, {"What", "is", "quantum", "computing"},
              {"What", "is", "the"}, {"attention", "encoder"}}

\* request.paragraph_ids after normalize_paragraph_ids
ExplicitIdLists == {<<>>, <<"s1_p1">>, <<"s1_p2", "s1_p1">>, <<UnknownId>>,
                    <<"s1_p1", UnknownId>>, <<"eq1">>}

\* Document.get_paragraph(id)
RECURSIVE get_paragraphs(_, _)
\* Document.get_paragraphs(ids): in the order given, unknown IDs skipped
get_paragraphs(doc, ids) ==
    IF ids = <<>> THEN <<>>
    ELSE LET found == {p \in Range(AllParagraphs(doc)) : p.paragraph_id = Head(ids)}
         IN  (IF found = {} THEN <<>> ELSE <<CHOOSE p \in found : TRUE>>)
             \o get_paragraphs(doc, Tail(ids))

\* Document.get_equation(id): the equation or None (modelled as the empty set)
get_equation(doc, id) == {e \in Range(doc.equations) : e.equation_id = id}

RECURSIVE SelectEquations(_, _)
SelectEquations(eqs, ids) ==
    IF eqs = <<>> THEN <<>>
    ELSE IF Head(eqs).associated_paragraph_id \in ids
         THEN <<Head(eqs)>> \o SelectEquations(Tail(eqs), ids)
         ELSE SelectEquations(Tail(eqs), ids)

\* Document.get_equations_for_paragraphs(ids): the equations associated with
\* one of the paragraphs, each once
get_equations_for_paragraphs(doc, ids) == SelectEquations(doc.equations, Range(ids))

(***************************************************************************)
(* Planner                                                                 *)
(***************************************************************************)
max_paragraphs == 10

\* the sort keyed on the position alone
FirstScored_by_position(S) ==
    CHOOSE a \in S : \A b \in S \ {a} : a.position < b.position
\* the entry that list.sort(key=lambda x: (-x[1], x[2])) puts first
FirstScored(S) ==
    CHOOSE a \in S : \A b \in S \ {a} :
        \/ a.score > b.score
        \/ (a.score = b.score /\ a.position < b.position)

RECURSIVE SortScored(_)
SortScored(S) ==
    IF S = {} THEN <<>>
    ELSE LET a == FirstScored(S) IN <<a>> \o SortScored(S \ {a})

\* scored_paragraphs: (id, score, position) of every paragraph with score > 0
ScoredParagraphs(doc, question_keywords) ==
    LET all == AllParagraphs(doc)
    IN  {[pid |-> all[i].paragraph_id,
          score |-> Cardinality(question_keywords \cap extract_keywords(all[i].text)),
          position |-> i - 1] : i \in
             {j \in DOMAIN all :
                 question_keywords \cap extract_keywords(all[j].text) # {}}}

planner_node(doc, ids, q) ==
    IF ids # <<>>
    THEN [candidate_paragraph_ids |-> ids,
          planner_reason |-> "Using explicitly provided paragraph IDs.",
          planner_selected_automatically |-> FALSE]
    ELSE LET question_keywords == extract_keywords(q)
             sorted == SortScored(ScoredParagraphs(doc, question_keywords))
             selected_ids == [i \in DOMAIN sorted |-> sorted[i].pid]
         IN  IF question_keywords = {}
             THEN [candidate_paragraph_ids |-> <<>>,
                   planner_reason |-> "No meaningful keywords extracted from question.",
                   planner_selected_automatically |-> TRUE]
             ELSE IF sorted = <<>>
             THEN [candidate_paragraph_ids |-> <<>>,
                   planner_reason |-> "No paragraphs matched keywords.",
                   planner_selected_automatically |-> TRUE]
             ELSE [candidate_paragraph_ids |->
                       SubSeq(selected_ids, 1,
                              IF Len(selected_ids) < max_paragraphs
                              THEN Len(selected_ids) ELSE max_paragraphs),
                   planner_reason |-> "Selected paragraphs via keyword matching.",
                   planner_selected_automatically |-> TRUE]

(***************************************************************************)
(* Retriever                                                               *)
(***************************************************************************)
RECURSIVE AppendReferenced(_, _, _)
\* for eq_ref in refs: eq = document.get_equation(eq_ref);
\*                     if eq and eq not in equations: equations.append(eq)
AppendReferenced(doc, refs, eqs) ==
    IF refs = <<>> THEN eqs
    ELSE LET eq == get_equation(doc, Head(refs))
         IN  AppendReferenced(doc, Tail(refs),
                 IF eq # {} /\ (CHOOSE e \in eq : TRUE) \notin Range(eqs)
                 THEN Append(eqs, CHOOSE e \in eq : TRUE) ELSE eqs)

RECURSIVE AppendReferencedAll(_, _, _)
AppendReferencedAll(doc, paras, eqs) ==
    IF paras = <<>> THEN eqs
    ELSE AppendReferencedAll(doc, Tail(paras),
             AppendReferenced(doc, Head(paras).equation_refs, eqs))

\* retrieve_paragraphs_node without the loop over equation_refs
retrieve_paragraphs_node_association_only(doc, candidates, ids) ==
    LET use == IF candidates # <<>> THEN candidates ELSE ids
    IN  [paragraphs |-> get_paragraphs(doc, use),
         equations |-> get_equations_for_paragraphs(doc, use)]
retrieve_paragraphs_node(doc, candidates, ids) ==
    LET use == IF candidates # <<>> THEN candidates ELSE ids
        paras == get_paragraphs(doc, use)
    IN  [paragraphs |-> paras,
         equations |-> AppendReferencedAll(doc, paras,
                           get_equations_for_paragraphs(doc, use))]

(***************************************************************************)
(* Model client                                                            *)
(***************************************************************************)
NoException == [type |-> "none", rate_limit |-> FALSE]

NoResponse == [fmt |-> "None", obj |-> NoDict]

\* what the Groq SDK call does: raises (the message may mention a timeout,
\* a rate limit, both or neither), answers without usable content, or
\* answers with a text
ClientFailures ==
    {[kind |-> "exception", timeout |-> t, rate_limit |-> r, content |-> NoResponse] :
        t \in BOOLEAN, r \in BOOLEAN}
    \cup {[kind |-> "malformed", timeout |-> FALSE, rate_limit |-> FALSE,
           content |-> NoResponse]}

ClientAnswer(c) ==
    [kind |-> "content", timeout |-> FALSE, rate_limit |-> FALSE, content |-> c]
\* GroqLLM.generate without the timeout branch: every failure is a RuntimeError
GroqLLM_generate_untyped_timeout(outcome) ==
    IF outcome.kind = "exception"
    THEN IF outcome.timeout
         THEN [raised |-> [type |-> "RuntimeError", rate_limit |-> outcome.rate_limit],
               response |-> NoResponse]
         ELSE IF outcome.rate_limit
         THEN [raised |-> [type |-> "RuntimeError", rate_limit |-> TRUE],
               response |-> NoResponse]
         ELSE [raised |-> [type |-> "RuntimeError", rate_limit |-> FALSE],
               response |-> NoResponse]
    ELSE IF outcome.kind = "malformed"
    THEN [raised |-> [type |-> "RuntimeError", rate_limit |-> FALSE],
          response |-> NoResponse]
    ELSE [raised |-> NoException, response |-> outcome.content]

\* GroqLLM.generate: the exception it raises, or the LLMResponse it returns
GroqLLM_generate(outcome) ==
    IF outcome.kind = "exception"
    THEN IF outcome.timeout
         THEN [raised |-> [type |-> "TimeoutError", rate_limit |-> outcome.rate_limit],
               response |-> NoResponse]
         ELSE IF outcome.rate_limit
         THEN [raised |-> [type |-> "RuntimeError", rate_limit |-> TRUE],
               response |-> NoResponse]
         ELSE [raised |-> [type |-> "RuntimeError", rate_limit |-> FALSE],
               response |-> NoResponse]
    ELSE IF outcome.kind = "malformed"
    THEN [raised |-> [type |-> "RuntimeError", rate_limit |-> FALSE],
          response |-> NoResponse]
    ELSE [raised |-> NoException, response |-> outcome.content]
\* safe_parse_json returning an empty dict instead of raising ValueError
safe_parse_json_lenient(content) ==
    IF content.fmt \in {"json", "fenced", "embedded"}
    THEN [raised |-> NoException, parsed |-> content.obj]
    ELSE [raised |-> NoException, parsed |-> NoDict]

\* safe_parse_json: direct parse, then fenced block, then balanced-brace
\* extraction; ValueError when none of them yields an object
safe_parse_json(content) ==
    IF content.fmt \in {"json", "fenced", "embedded"}
    THEN [raised |-> NoException, parsed |-> content.obj]
    ELSE [raised |-> [type |-> "ValueError", rate_limit |-> FALSE], parsed |-> NoDict]

parse_llm_response(response) == safe_parse_json(response)

(***************************************************************************)
(* The object extractor on the characters of a text.  A text is a sequence *)
(* of characters; a fence marker and the tag after it are one element each *)
(***************************************************************************)
Quote == "\""

Backslash == "\\"

\* the fence marker of a code block, three backticks
Fence == "fence"

MaxText == 5

\* JSON values: a string (its characters) or an object (its members in order)
Str(s) == [type |-> "string", chars |-> s, members |-> <<>>]

Obj(ms) == [type |-> "object", chars |-> <<>>, members |-> ms]

Member(k, v) == [key |-> k, value |-> v]

\* string values with a brace, a quote or a backslash in them
StringValues == {<<"k">>, <<"{">>, <<"}">>, <<"}", "{">>, <<Quote>>, <<Backslash>>}

\* the objects a text of the model may hold: empty, flat, nested
JsonObjects ==
    {Obj(<<>>)}
    \cup {Obj(<<Member(<<"k">>, Str(v))>>) : v \in StringValues}
    \cup {Obj(<<Member(<<"k">>, Obj(<<Member(<<"k">>, Str(v))>>))>>) :
             v \in {<<"k">>, <<"}">>}}

RECURSIVE Escape(_)
\* a quote or a backslash of a string value is written after a backslash
Escape(chars) ==
    IF chars = <<>> THEN <<>>
    ELSE (IF Head(chars) \in {Quote, Backslash} THEN <<Backslash, Head(chars)>>
          ELSE <<Head(chars)>>) \o Escape(Tail(chars))

RECURSIVE dumps(_)
\* the JSON text of a value (objects of the model have at most one member)
dumps(v) ==
    IF v.type = "string" THEN <<Quote>> \o Escape(v.chars) \o <<Quote>>
    ELSE IF v.members = <<>> THEN <<"{", "}">>
    ELSE <<"{">> \o dumps(Str(v.members[1].key)) \o <<":">>
         \o dumps(v.members[1].value) \o <<"}">>

\* json.loads on the objects of the model: the object whose JSON text this
\* is, JSONDecodeError for every other text
json_loads(text) ==
    LET found == {o \in JsonObjects : dumps(o) = text}
    IN  IF found = {} THEN [raised |-> "JSONDecodeError", value |-> Obj(<<>>)]
        ELSE [raised |-> "", value |-> CHOOSE o \in found : TRUE]

RECURSIVE strip(_)
\* str.strip()
strip(text) ==
    IF text = <<>> THEN <<>>
    ELSE IF Head(text) = " " THEN strip(Tail(text))
    ELSE IF text[Len(text)] = " " THEN strip(SubSeq(text, 1, Len(text) - 1))
    ELSE text

\* str.find: the first place of the text, from place from on, that holds ch
\* (0: none)
text_find(text, ch, from) ==
    LET at == {i \in from..Len(text) : text[i] = ch}
    IN  IF at = {} THEN 0 ELSE CHOOSE i \in at : \A j \in at : i <= j

RECURSIVE scan_counting_string_braces(_, _, _, _, _)
\* the loop counting the braces inside strings too
scan_counting_string_braces(text, i, depth, in_string, escape_next) ==
    IF i > Len(text) THEN 0
    ELSE IF text[i] = "{"
    THEN scan_counting_string_braces(text, i + 1, depth + 1, in_string, FALSE)
    ELSE IF text[i] = "}"
    THEN IF depth = 0 THEN -1
         ELSE IF depth = 1 THEN i
         ELSE scan_counting_string_braces(text, i + 1, depth - 1, in_string, FALSE)
    ELSE scan_counting_string_braces(text, i + 1, depth, in_string, FALSE)

RECURSIVE scan(_, _, _, _, _)
\* the loop of extract_json_block from place i on, with the stack depth and
\* the flags it holds there: the place of the closing brace that empties the
\* stack, 0 when the text ends first, -1 on a closing brace with an empty stack
scan(text, i, depth, in_string, escape_next) ==
    IF i > Len(text) THEN 0
    ELSE IF escape_next THEN scan(text, i + 1, depth, in_string, FALSE)
    ELSE IF text[i] = Backslash THEN scan(text, i + 1, depth, in_string, TRUE)
    ELSE IF text[i] = Quote THEN scan(text, i + 1, depth, ~in_string, FALSE)
    ELSE IF ~in_string /\ text[i] = "{" THEN scan(text, i + 1, depth + 1, in_string, FALSE)
    ELSE IF ~in_string /\ text[i] = "}"
    THEN IF depth = 0 THEN -1
         ELSE IF depth = 1 THEN i
         ELSE scan(text, i + 1, depth - 1, in_string, FALSE)
    ELSE scan(text, i + 1, depth, in_string, FALSE)

NoBlock(message) == [raised |-> message, value |-> <<>>]

\* extract_json_block returning what it has when the text ends inside the object
extract_json_block_returns_partial(text) ==
    LET start == text_find(text, "{", 1)
        end == scan(text, start, 0, FALSE, FALSE)
    IN  IF start = 0 THEN NoBlock("No JSON object found in text")
        ELSE IF end = -1 THEN NoBlock("Unbalanced JSON braces - extra closing brace")
        ELSE IF end = 0 THEN [raised |-> "", value |-> SubSeq(text, start, Len(text))]
        ELSE [raised |-> "", value |-> SubSeq(text, start, end)]
extract_json_block(text) ==
    LET start == text_find(text, "{", 1)
        end == scan(text, start, 0, FALSE, FALSE)
    IN  IF start = 0 THEN NoBlock("No JSON object found in text")
        ELSE IF end = -1 THEN NoBlock("Unbalanced JSON braces - extra closing brace")
        ELSE IF end = 0 THEN NoBlock("Unbalanced JSON braces - unclosed object")
        ELSE [raised |-> "", value |-> SubSeq(text, start, end)]

\* re.search for a fenced block, tagged json or not, with a lazy group:
\* the text between the first opening fence that is closed and the next fence
fenced(text, tagged) ==
    LET opens == {i \in DOMAIN text :
                     /\ text[i] = Fence
                     /\ tagged => i < Len(text) /\ text[i + 1] = "json"
                     /\ text_find(text, Fence, i + (IF tagged THEN 2 ELSE 1)) # 0}
        open == CHOOSE i \in opens : \A j \in opens : i <= j
        body == open + (IF tagged THEN 2 ELSE 1)
    IN  IF opens = {} THEN [match |-> FALSE, group |-> <<>>]
        ELSE [match |-> TRUE,
              group |-> SubSeq(text, body, text_find(text, Fence, body) - 1)]

\* safe_parse_json on the characters of the text
safe_parse_json_chars(raw) ==
    LET text == strip(raw)
        direct == json_loads(text)
        tagged == \E i \in DOMAIN text : text[i] = Fence /\ i < Len(text) /\ text[i + 1] = "json"
        plain == \E i \in DOMAIN text : text[i] = Fence
        block == IF tagged THEN fenced(text, TRUE)
                 ELSE IF plain THEN fenced(text, FALSE)
                 ELSE [match |-> FALSE, group |-> <<>>]
        inner == json_loads(strip(block.group))
        json_str == extract_json_block(text)
        extracted == json_loads(json_str.value)
    IN  IF direct.raised = "" THEN direct
        ELSE IF block.match /\ inner.raised = "" THEN inner
        ELSE IF json_str.raised # "" \/ extracted.raised # ""
        THEN [raised |-> "ValueError", value |-> Obj(<<>>)]
        ELSE extracted

(***************************************************************************)
(* Explainer                                                               *)
(***************************************************************************)
\* build_context_block labelling the first paragraph only
build_context_block_first_only(paras) == [i \in DOMAIN paras \cap {1} |-> paras[i].paragraph_id]

\* build_context_block: one block per paragraph, labelled by its ID
build_context_block(paras) == [i \in DOMAIN paras |-> paras[i].paragraph_id]

\* build_equations_block: one block per equation, labelled by its ID
build_equations_block(eqs) == [i \in DOMAIN eqs |-> eqs[i].equation_id]

build_prompt(context, q, equations_context) ==
    [stage |-> "explain", paragraph_ids |-> context,
     equation_ids |-> equations_context, question |-> q]
\* explain_node without the early return for an empty paragraph list
explain_node_always_calls(paras, eqs, q, outcome) ==
    IF FALSE
    THEN [raised |-> NoException, prompts |-> <<>>, llm_response |-> NoResponse,
          final_response |-> [answer |-> NOT_DEFINED, citations |-> <<>>]]
    ELSE LET prompt == build_prompt(build_context_block(paras), q,
                                    build_equations_block(eqs))
             gen == GroqLLM_generate(outcome)
             parse == parse_llm_response(gen.response)
             valid_paragraph_ids == {p.paragraph_id : p \in Range(paras)}
             valid_citations ==
                 FilterSeq(Get(parse.parsed, "citations", <<>>), valid_paragraph_ids)
         IN  IF gen.raised # NoException
             THEN [raised |-> gen.raised, prompts |-> <<prompt>>,
                   llm_response |-> NoResponse, final_response |-> NoDict]
             ELSE IF parse.raised # NoException
             THEN [raised |-> parse.raised, prompts |-> <<prompt>>,
                   llm_response |-> NoResponse, final_response |-> NoDict]
             ELSE [raised |-> NoException, prompts |-> <<prompt>>,
                   llm_response |-> gen.response,
                   final_response |->
                       [answer |-> Get(parse.parsed, "answer", NOT_DEFINED),
                        citations |-> valid_citations]]
\* explain_node copying the confidence the model reports into the draft
explain_node_keeps_confidence(paras, eqs, q, outcome) ==
    IF paras = <<>>
    THEN [raised |-> NoException, prompts |-> <<>>, llm_response |-> NoResponse,
          final_response |-> [answer |-> NOT_DEFINED, citations |-> <<>>]]
    ELSE LET prompt == build_prompt(build_context_block(paras), q,
                                    build_equations_block(eqs))
             gen == GroqLLM_generate(outcome)
             parse == parse_llm_response(gen.response)
             valid_paragraph_ids == {p.paragraph_id : p \in Range(paras)}
             valid_citations ==
                 FilterSeq(Get(parse.parsed, "citations", <<>>), valid_paragraph_ids)
         IN  IF gen.raised # NoException
             THEN [raised |-> gen.raised, prompts |-> <<prompt>>,
                   llm_response |-> NoResponse, final_response |-> NoDict]
             ELSE IF parse.raised # NoException
             THEN [raised |-> parse.raised, prompts |-> <<prompt>>,
                   llm_response |-> NoResponse, final_response |-> NoDict]
             ELSE [raised |-> NoException, prompts |-> <<prompt>>,
                   llm_response |-> gen.response,
                   final_response |->
                       Put([answer |-> Get(parse.parsed, "answer", NOT_DEFINED),
                            citations |-> valid_citations],
                           "confidence", Get(parse.parsed, "confidence", "low"))]
\* explain_node accepting the IDs of the supplied equations as citations
explain_node_keeps_equations(paras, eqs, q, outcome) ==
    IF paras = <<>>
    THEN [raised |-> NoException, prompts |-> <<>>, llm_response |-> NoResponse,
          final_response |-> [answer |-> NOT_DEFINED, citations |-> <<>>]]
    ELSE LET prompt == build_prompt(build_context_block(paras), q,
                                    build_equations_block(eqs))
             gen == GroqLLM_generate(outcome)
             parse == parse_llm_response(gen.response)
             valid_paragraph_ids == {p.paragraph_id : p \in Range(paras)}
                                    \cup {e.equation_id : e \in Range(eqs)}
             valid_citations ==
                 FilterSeq(Get(parse.parsed, "citations", <<>>), valid_paragraph_ids)
         IN  IF gen.raised # NoException
             THEN [raised |-> gen.raised, prompts |-> <<prompt>>,
                   llm_response |-> NoResponse, final_response |-> NoDict]
             ELSE IF parse.raised # NoException
             THEN [raised |-> parse.raised, prompts |-> <<prompt>>,
                   llm_response |-> NoResponse, final_response |-> NoDict]
             ELSE [raised |-> NoException, prompts |-> <<prompt>>,
                   llm_response |-> gen.response,
                   final_response |->
                       [answer |-> Get(parse.parsed, "answer", NOT_DEFINED),
                        citations |-> valid_citations]]

\* explain_node answering the refusal as soon as one citation is not a paragraph ID
explain_node_rejects_mixed(paras, eqs, q, outcome) ==
    IF paras = <<>>
    THEN [raised |-> NoException, prompts |-> <<>>, llm_response |-> NoResponse,
          final_response |-> [answer |-> NOT_DEFINED, citations |-> <<>>]]
    ELSE LET prompt == build_prompt(build_context_block(paras), q,
                                    build_equations_block(eqs))
             gen == GroqLLM_generate(outcome)
             parse == parse_llm_response(gen.response)
             valid_paragraph_ids == {p.paragraph_id : p \in Range(paras)}
             cited == Get(parse.parsed, "citations", <<>>)
         IN  IF gen.raised # NoException
             THEN [raised |-> gen.raised, prompts |-> <<prompt>>,
                   llm_response |-> NoResponse, final_response |-> NoDict]
             ELSE IF parse.raised # NoException
             THEN [raised |-> parse.raised, prompts |-> <<prompt>>,
                   llm_response |-> NoResponse, final_response |-> NoDict]
             ELSE IF Range(cited) \subseteq valid_paragraph_ids
             THEN [raised |-> NoException, prompts |-> <<prompt>>,
                   llm_response |-> gen.response,
                   final_response |->
                       [answer |-> Get(parse.parsed, "answer", NOT_DEFINED),
                        citations |-> cited]]
             ELSE [raised |-> NoException, prompts |-> <<prompt>>,
                   llm_response |-> gen.response,
                   final_response |-> [answer |-> NOT_DEFINED, citations |-> <<>>]]
explain_node(paras, eqs, q, outcome) ==
    IF paras = <<>>
    THEN [raised |-> NoException, prompts |-> <<>>, llm_response |-> NoResponse,
          final_response |-> [answer |-> NOT_DEFINED, citations |-> <<>>]]
    ELSE LET prompt == build_prompt(build_context_block(paras), q,
                                    build_equations_block(eqs))
             gen == GroqLLM_generate(outcome)
             parse == parse_llm_response(gen.response)
             valid_paragraph_ids == {p.paragraph_id : p \in Range(paras)}
             valid_citations ==
                 FilterSeq(Get(parse.parsed, "citations", <<>>), valid_paragraph_ids)
         IN  IF gen.raised # NoException
             THEN [raised |-> gen.raised, prompts |-> <<prompt>>,
                   llm_response |-> NoResponse, final_response |-> NoDict]
             ELSE IF parse.raised # NoException
             THEN [raised |-> parse.raised, prompts |-> <<prompt>>,
                   llm_response |-> NoResponse, final_response |-> NoDict]
             ELSE [raised |-> NoException, prompts |-> <<prompt>>,
                   llm_response |-> gen.response,
                   final_response |->
                       [answer |-> Get(parse.parsed, "answer", NOT_DEFINED),
                        citations |-> valid_citations]]

(***************************************************************************)
(* Verifier                                                                *)
(***************************************************************************)
Debug(planner_r, verifier_r) ==
    [planner_reason |-> planner_r, verifier_reason |-> verifier_r]

Rejected(reason, debug, planner_r) ==
    LET rejected_response ==
            [answer |-> NOT_DEFINED, citations |-> <<>>, confidence |-> "low"]
    IN  [final_response |->
             IF debug THEN Put(rejected_response, "debug", Debug(planner_r, reason))
             ELSE rejected_response,
         verification_passed |-> FALSE,
         verifier_reason |-> reason]
\* verifier_node without the check of the citations against the context
verifier_node_skips_rule_b(response, paras, debug, auto, planner_r) ==
    LET answer == Get(response, "answer", "")
        citations == Get(response, "citations", <<>>)
        valid_paragraph_ids == {p.paragraph_id : p \in Range(paras)}
        is_not_defined == answer = NOT_DEFINED
        has_citations == Len(citations) > 0
        invalid_citations == FilterSeq(citations, Range(citations) \ valid_paragraph_ids)
        confidence == IF has_citations /\ auto THEN "high" ELSE "low"
        passed_reason ==
            (IF is_not_defined
             THEN "PASSED: Answer correctly indicates topic not defined in paper."
             ELSE "PASSED: Answer grounded with valid citations.")
            \o (IF ~has_citations /\ ~auto
                THEN " Confidence=low due to: no citations, paragraphs provided manually."
                ELSE IF ~has_citations
                THEN " Confidence=low due to: no citations."
                ELSE IF ~auto
                THEN " Confidence=low due to: paragraphs provided manually."
                ELSE " Confidence=high (citations present, verified, planner auto-selected).")
        output_response == Put(response, "confidence", confidence)
    IN  IF ~is_not_defined /\ ~has_citations
        THEN Rejected("REJECTED: Answer provided without citations.", debug, planner_r)
        ELSE IF FALSE
        THEN Rejected("REJECTED: Invalid citations not in provided context.",
                      debug, planner_r)
        ELSE [final_response |->
                  IF debug
                  THEN Put(output_response, "debug", Debug(planner_r, passed_reason))
                  ELSE output_response,
              verification_passed |-> TRUE,
              verifier_reason |-> passed_reason]
\* verifier_node deriving the confidence from the citations alone
verifier_node_ignores_auto(response, paras, debug, auto, planner_r) ==
    LET answer == Get(response, "answer", "")
        citations == Get(response, "citations", <<>>)
        valid_paragraph_ids == {p.paragraph_id : p \in Range(paras)}
        is_not_defined == answer = NOT_DEFINED
        has_citations == Len(citations) > 0
        invalid_citations == FilterSeq(citations, Range(citations) \ valid_paragraph_ids)
        confidence == IF has_citations THEN "high" ELSE "low"
        passed_reason ==
            (IF is_not_defined
             THEN "PASSED: Answer correctly indicates topic not defined in paper."
             ELSE "PASSED: Answer grounded with valid citations.")
            \o (IF ~has_citations /\ ~auto
                THEN " Confidence=low due to: no citations, paragraphs provided manually."
                ELSE IF ~has_citations
                THEN " Confidence=low due to: no citations."
                ELSE IF ~auto
                THEN " Confidence=low due to: paragraphs provided manually."
                ELSE " Confidence=high (citations present, verified, planner auto-selected).")
        output_response == Put(response, "confidence", confidence)
    IN  IF ~is_not_defined /\ ~has_citations
        THEN Rejected("REJECTED: Answer provided without citations.", debug, planner_r)
        ELSE IF invalid_citations # <<>>
        THEN Rejected("REJECTED: Invalid citations not in provided context.",
                      debug, planner_r)
        ELSE [final_response |->
                  IF debug
                  THEN Put(output_response, "debug", Debug(planner_r, passed_reason))
                  ELSE output_response,
              verification_passed |-> TRUE,
              verifier_reason |-> passed_reason]

\* verifier_node rejecting every answer without citations, the refusal included
verifier_node_rejects_uncited(response, paras, debug, auto, planner_r) ==
    LET answer == Get(response, "answer", "")
        citations == Get(response, "citations", <<>>)
        valid_paragraph_ids == {p.paragraph_id : p \in Range(paras)}
        is_not_defined == answer = NOT_DEFINED
        has_citations == Len(citations) > 0
        invalid_citations == FilterSeq(citations, Range(citations) \ valid_paragraph_ids)
        confidence == IF has_citations /\ auto THEN "high" ELSE "low"
        passed_reason ==
            (IF is_not_defined
             THEN "PASSED: Answer correctly indicates topic not defined in paper."
             ELSE "PASSED: Answer grounded with valid citations.")
            \o (IF ~has_citations /\ ~auto
                THEN " Confidence=low due to: no citations, paragraphs provided manually."
                ELSE IF ~has_citations
                THEN " Confidence=low due to: no citations."
                ELSE IF ~auto
                THEN " Confidence=low due to: paragraphs provided manually."
                ELSE " Confidence=high (citations present, verified, planner auto-selected).")
        output_response == Put(response, "confidence", confidence)
    IN  IF ~has_citations
        THEN Rejected("REJECTED: Answer provided without citations.", debug, planner_r)
        ELSE IF invalid_citations # <<>>
        THEN Rejected("REJECTED: Invalid citations not in provided context.",
                      debug, planner_r)
        ELSE [final_response |->
                  IF debug
                  THEN Put(output_response, "debug", Debug(planner_r, passed_reason))
                  ELSE output_response,
              verification_passed |-> TRUE,
              verifier_reason |-> passed_reason]
verifier_node(response, paras, debug, auto, planner_r) ==
    LET answer == Get(response, "answer", "")
        citations == Get(response, "citations", <<>>)
        valid_paragraph_ids == {p.paragraph_id : p \in Range(paras)}
        is_not_defined == answer = NOT_DEFINED
        has_citations == Len(citations) > 0
        invalid_citations == FilterSeq(citations, Range(citations) \ valid_paragraph_ids)
        confidence == IF has_citations /\ auto THEN "high" ELSE "low"
        passed_reason ==
            (IF is_not_defined
             THEN "PASSED: Answer correctly indicates topic not defined in paper."
             ELSE "PASSED: Answer grounded with valid citations.")
            \o (IF ~has_citations /\ ~auto
                THEN " Confidence=low due to: no citations, paragraphs provided manually."
                ELSE IF ~has_citations
                THEN " Confidence=low due to: no citations."
                ELSE IF ~auto
                THEN " Confidence=low due to: paragraphs provided manually."
                ELSE " Confidence=high (citations present, verified, planner auto-selected).")
        output_response == Put(response, "confidence", confidence)
    IN  IF ~is_not_defined /\ ~has_citations
        THEN Rejected("REJECTED: Answer provided without citations.", debug, planner_r)
        ELSE IF invalid_citations # <<>>
        THEN Rejected("REJECTED: Invalid citations not in provided context.",
                      debug, planner_r)
        ELSE [final_response |->
                  IF debug
                  THEN Put(output_response, "debug", Debug(planner_r, passed_reason))
                  ELSE output_response,
              verification_passed |-> TRUE,
              verifier_reason |-> passed_reason]

(***************************************************************************)
(* Evidence Linker                                                         *)
(***************************************************************************)
\* the strings of the model in the order Python's sorted() gives them
SortOrder == <<"K", "Q", "V", "attention", "decoder", "encoder", "eq1", "eq2", "layer",
               "query", "s1_p1", "s1_p2", "s2_p1", "s4_p1", "s4_p2", "s4_p3", "s4_p4",
               "s4_p5", "s99_p99", "softmax">>

\* sorted(S)
Sorted(S) == FilterSeq(SortOrder, S)

\* the evidence IDs and the entity names of the model
IdNames == <<"eq1", "eq2", "s1_p1", "s1_p2", "s2_p1", "s4_p1", "s4_p2", "s4_p3", "s4_p4",
             "s4_p5", "s99_p99">>

EntityNames == <<"K", "Q", "V", "attention", "decoder", "encoder", "layer", "query",
                 "softmax">>

Reverse(s) == [i \in DOMAIN s |-> s[Len(s) + 1 - i]]

\* s with its first k elements moved to the end
Rotate(s, k) == SubSeq(s, k + 1, Len(s)) \o SubSeq(s, 1, k)

\* the order in which a set of strings yields its members is not fixed by
\* the language (it follows the string hashes of the run): an iteration
\* order gives the order for sets of evidence IDs and for sets of entities
IterationOrders ==
    {[ids |-> a, entities |-> b] :
        a \in {IdNames, Reverse(IdNames)}, b \in {EntityNames, Reverse(EntityNames)}}

\* list(S), or a loop over S: the members of the set in the order it yields them
SetToSeq(S, names) == FilterSeq(names, S)

RECURSIVE Dedup(_)
\* the keys of a dict filled in the order of s
Dedup(s) ==
    IF s = <<>> THEN <<>>
    ELSE LET rest == Dedup(SubSeq(s, 1, Len(s) - 1))
         IN  IF s[Len(s)] \in Range(rest) THEN rest ELSE Append(rest, s[Len(s)])

ParagraphEntities(para) ==
    IF para.entities.present
    THEN [variables |-> para.entities.variables, concepts |-> para.entities.concepts]
    ELSE extract_entities_as_model(para.text)

\* evidence_entities: {id: {"variables": set, "concepts": set}}
EvidenceEntities(paras, eqs) ==
    [id \in {p.paragraph_id : p \in Range(paras)} \cup {e.equation_id : e \in Range(eqs)} |->
        IF \E e \in Range(eqs) : e.equation_id = id
        THEN extract_entities_as_model(
                 (CHOOSE e \in Range(eqs) : e.equation_id = id).equation_text)
        ELSE ParagraphEntities(CHOOSE q \in Range(paras) : q.paragraph_id = id)]

RECURSIVE find(_, _)
find(parent, x) == IF parent[x] # x THEN find(parent, parent[x]) ELSE x

union(parent, x, y) ==
    LET px == find(parent, x)
        py == find(parent, y)
    IN  IF px # py THEN [parent EXCEPT ![px] = py] ELSE parent

RECURSIVE UnionList(_, _, _)
\* for i in range(1, len(eids_list)): union(eids_list[0], eids_list[i])
UnionList(parent, first, rest) ==
    IF rest = <<>> THEN parent
    ELSE UnionList(union(parent, first, Head(rest)), first, Tail(rest))

RECURSIVE UnionGroups(_, _, _)
\* for entity, eids in entity_to_evidence.items(): union its evidence IDs
UnionGroups(parent, groups, order) ==
    IF groups = <<>> THEN parent
    ELSE LET eids_list == SetToSeq(Head(groups), order.ids)
         IN  UnionGroups(IF eids_list = <<>> THEN parent
                         ELSE UnionList(parent, Head(eids_list), Tail(eids_list)),
                         Tail(groups), order)

\* the values of variable_to_evidence (kind = "variables") or
\* concept_to_evidence (kind = "concepts")
\* concept_to_evidence (kind = "concepts"), in the order their keys are inserted:
\* evidence by evidence, and within one in the order its entity set yields them
EntityToEvidence(ents, kind, all_ids, order) ==
    LET keys == Dedup(Flatten([i \in DOMAIN all_ids |->
                                  SetToSeq(ents[all_ids[i]][kind], order.entities)]))
    IN  [i \in DOMAIN keys |-> {id \in DOMAIN ents : keys[i] \in ents[id][kind]}]

\* the strict intersection: entities that appear in every source of the component
SharedIn_every_member(ents, source_ids, kind) ==
    {x \in UNION {ents[id][kind] : id \in source_ids} :
        \A id \in source_ids : x \in ents[id][kind]}
\* entities that appear in 2+ sources of the component
SharedIn(ents, source_ids, kind) ==
    {x \in UNION {ents[id][kind] : id \in source_ids} :
        Cardinality({id \in source_ids : x \in ents[id][kind]}) >= 2}

\* all_ids: the keys of evidence_entities, paragraphs first
AllEvidenceIds(paras, eqs) ==
    Dedup([i \in DOMAIN paras |-> paras[i].paragraph_id]
          \o [i \in DOMAIN eqs |-> eqs[i].equation_id])

\* parent after the unions over variable_to_evidence and concept_to_evidence
UnionFind(paras, eqs, order) ==
    LET ents == EvidenceEntities(paras, eqs)
        all_ids == AllEvidenceIds(paras, eqs)
        parent0 == [id \in DOMAIN ents |-> id]
        parent1 == UnionGroups(parent0, EntityToEvidence(ents, "variables", all_ids, order),
                               order)
    IN  UnionGroups(parent1, EntityToEvidence(ents, "concepts", all_ids, order), order)

\* evidence_linker_node without the unions over concept_to_evidence
evidence_linker_node_variables_only(paras, eqs, order) ==
    LET ents == EvidenceEntities(paras, eqs)
        all_ids == AllEvidenceIds(paras, eqs)
        parent == UnionGroups([id \in DOMAIN ents |-> id],
                              EntityToEvidence(ents, "variables", all_ids, order), order)
        roots == Dedup([i \in DOMAIN all_ids |-> find(parent, all_ids[i])])
        component(root) == {id \in DOMAIN ents : find(parent, id) = root}
        linked == FilterSeq(roots, {r \in Range(roots) : Cardinality(component(r)) >= 2})
    IN  IF paras = <<>> /\ eqs = <<>> THEN <<>>
        ELSE IF Len(all_ids) < 2 THEN <<>>
        ELSE [i \in DOMAIN linked |->
                 [source_ids |-> Sorted(component(linked[i])),
                  shared_entities |->
                      [variables |-> Sorted(SharedIn(ents, component(linked[i]), "variables")),
                       concepts |-> Sorted(SharedIn(ents, component(linked[i]), "concepts"))]]]
\* evidence_linker_node listing the groups in the sorted order of their roots
evidence_linker_node_by_root(paras, eqs, order) ==
    LET ents == EvidenceEntities(paras, eqs)
        all_ids == AllEvidenceIds(paras, eqs)
        parent == UnionFind(paras, eqs, order)
        roots == Sorted({find(parent, all_ids[i]) : i \in DOMAIN all_ids})
        component(root) == {id \in DOMAIN ents : find(parent, id) = root}
        linked == FilterSeq(roots, {r \in Range(roots) : Cardinality(component(r)) >= 2})
    IN  IF paras = <<>> /\ eqs = <<>> THEN <<>>
        ELSE IF Len(all_ids) < 2 THEN <<>>
        ELSE [i \in DOMAIN linked |->
                 [source_ids |-> Sorted(component(linked[i])),
                  shared_entities |->
                      [variables |-> Sorted(SharedIn(ents, component(linked[i]), "variables")),
                       concepts |-> Sorted(SharedIn(ents, component(linked[i]), "concepts"))]]]
evidence_linker_node(paras, eqs, order) ==
    LET ents == EvidenceEntities(paras, eqs)
        all_ids == AllEvidenceIds(paras, eqs)
        parent == UnionFind(paras, eqs, order)
        roots == Dedup([i \in DOMAIN all_ids |-> find(parent, all_ids[i])])
        component(root) == {id \in DOMAIN ents : find(parent, id) = root}
        linked == FilterSeq(roots, {r \in Range(roots) : Cardinality(component(r)) >= 2})
    IN  IF paras = <<>> /\ eqs = <<>> THEN <<>>
        ELSE IF Len(all_ids) < 2 THEN <<>>
        ELSE [i \in DOMAIN linked |->
                 [source_ids |-> Sorted(component(linked[i])),
                  shared_entities |->
                      [variables |-> Sorted(SharedIn(ents, component(linked[i]), "variables")),
                       concepts |-> Sorted(SharedIn(ents, component(linked[i]), "concepts"))]]]

(***************************************************************************)
(* Composer                                                                *)
(***************************************************************************)
Null == [null |-> TRUE, text |-> ""]

Text(t) == [null |-> FALSE, text |-> t]

\* the members of TECHNICAL_CONCEPTS that occur in the model's texts
TECHNICAL_CONCEPTS == {"attention", "encoder", "decoder", "softmax"}

build_composer_prompt(paras, eqs, linked, q) ==
    [stage |-> "composer", paragraph_ids |-> [i \in DOMAIN paras |-> paras[i].paragraph_id],
     equation_ids |-> [i \in DOMAIN eqs |-> eqs[i].equation_id], question |-> q]

\* parse_composer_response: the object between the first "{" and the last "}",
\* or the empty fallback when none parses
parse_composer_response(response) ==
    IF response.fmt \in {"json", "fenced", "embedded"}
    THEN [composed_explanation |-> Get(response.obj, "composed_explanation", ""),
          sentences |-> Get(response.obj, "sentences", <<>>)]
    ELSE [composed_explanation |-> "", sentences |-> <<>>]

\* the first loop looking for a missing citation in every sentence before it
\* looks for an invalid one
CheckCitations_missing_first(sentences, valid_source_ids) ==
    IF \E i \in DOMAIN sentences : Get(sentences[i], "citation", "") = ""
    THEN "REJECTED: Sentence lacks a citation."
    ELSE IF \E i \in DOMAIN sentences : Get(sentences[i], "citation", "") \notin valid_source_ids
    THEN "REJECTED: Invalid citation not in sources."
    ELSE "ok"

RECURSIVE CheckCitations(_, _)
\* the first loop of verify_composed_explanation
CheckCitations(sentences, valid_source_ids) ==
    IF sentences = <<>> THEN "ok"
    ELSE LET citation == Get(Head(sentences), "citation", "")
         IN  IF citation = "" THEN "REJECTED: Sentence lacks a citation."
             ELSE IF citation \notin valid_source_ids
             THEN "REJECTED: Invalid citation not in sources."
             ELSE CheckCitations(Tail(sentences), valid_source_ids)

\* allowed_entities holding the variables of the evidence only
AllowedEntities_variables_only(paras, eqs) ==
    UNION {ParagraphEntities(p).variables : p \in Range(paras)}
    \cup UNION {extract_entities_as_model(e.equation_text).variables : e \in Range(eqs)}

\* allowed_entities: variables and concepts of every paragraph and equation
AllowedEntities(paras, eqs) ==
    UNION {ParagraphEntities(p).variables \cup ParagraphEntities(p).concepts :
              p \in Range(paras)}
    \cup UNION {extract_entities_as_model(e.equation_text).variables
                \cup extract_entities_as_model(e.equation_text).concepts :
                   e \in Range(eqs)}

RECURSIVE CheckEntities(_, _)
\* the second loop of verify_composed_explanation
CheckEntities(sentences, allowed_entities) ==
    IF sentences = <<>> THEN "ok"
    ELSE LET sent_entities == extract_entities_as_model(Get(Head(sentences), "text", {}))
         IN  IF sent_entities.variables \ allowed_entities # {}
             THEN "REJECTED: New variable introduced in composed explanation."
             ELSE IF (sent_entities.concepts \cap TECHNICAL_CONCEPTS) \ allowed_entities # {}
             THEN "REJECTED: New technical concept introduced in composed explanation."
             ELSE CheckEntities(Tail(sentences), allowed_entities)

verify_composed_explanation(sentences, valid_source_ids, paras, eqs) ==
    LET cited == CheckCitations(sentences, valid_source_ids)
        grounded == CheckEntities(sentences, AllowedEntities(paras, eqs))
    IN  IF sentences = <<>>
        THEN [passed |-> FALSE, reason |-> "REJECTED: No sentences in composed explanation."]
        ELSE IF cited # "ok" THEN [passed |-> FALSE, reason |-> cited]
        ELSE IF grounded # "ok" THEN [passed |-> FALSE, reason |-> grounded]
        ELSE [passed |-> TRUE, reason |-> "PASSED: Composed explanation verified."]
\* composer_node returning the narrative although its verification failed
composer_node_keeps_draft(paras, eqs, linked, q, outcome, verifier_r) ==
    LET valid_source_ids == {p.paragraph_id : p \in Range(paras)}
                            \cup {e.equation_id : e \in Range(eqs)}
        prompt == build_composer_prompt(paras, eqs, linked, q)
        gen == GroqLLM_generate(outcome)
        parsed == parse_composer_response(gen.response)
        check == verify_composed_explanation(parsed.sentences, valid_source_ids, paras, eqs)
    IN  IF paras = <<>> /\ eqs = <<>>
        THEN [raised |-> NoException, prompts |-> <<>>, composed_explanation |-> Null,
              composer_verification_passed |-> FALSE, reason |-> "",
              verifier_reason |-> verifier_r]
        ELSE IF gen.raised # NoException
        THEN [raised |-> gen.raised, prompts |-> <<prompt>>, composed_explanation |-> Null,
              composer_verification_passed |-> FALSE, reason |-> "",
              verifier_reason |-> verifier_r]
        ELSE IF ~check.passed
        THEN [raised |-> NoException, prompts |-> <<prompt>>,
              composed_explanation |-> Text(parsed.composed_explanation),
              composer_verification_passed |-> FALSE, reason |-> check.reason,
              verifier_reason |-> verifier_r \o " Composer: " \o check.reason]
        ELSE [raised |-> NoException, prompts |-> <<prompt>>,
              composed_explanation |-> Text(parsed.composed_explanation),
              composer_verification_passed |-> check.passed, reason |-> check.reason,
              verifier_reason |-> verifier_r \o " Composer: " \o check.reason]

\* composer_node putting its own verdict in the place of the Verifier's reason
composer_node_replaces_reason(paras, eqs, linked, q, outcome, verifier_r) ==
    LET valid_source_ids == {p.paragraph_id : p \in Range(paras)}
                            \cup {e.equation_id : e \in Range(eqs)}
        prompt == build_composer_prompt(paras, eqs, linked, q)
        gen == GroqLLM_generate(outcome)
        parsed == parse_composer_response(gen.response)
        check == verify_composed_explanation(parsed.sentences, valid_source_ids, paras, eqs)
    IN  IF paras = <<>> /\ eqs = <<>>
        THEN [raised |-> NoException, prompts |-> <<>>, composed_explanation |-> Null,
              composer_verification_passed |-> FALSE, reason |-> "",
              verifier_reason |-> verifier_r]
        ELSE IF gen.raised # NoException
        THEN [raised |-> gen.raised, prompts |-> <<prompt>>, composed_explanation |-> Null,
              composer_verification_passed |-> FALSE, reason |-> "",
              verifier_reason |-> verifier_r]
        ELSE IF ~check.passed
        THEN [raised |-> NoException, prompts |-> <<prompt>>, composed_explanation |-> Null,
              composer_verification_passed |-> FALSE, reason |-> check.reason,
              verifier_reason |-> check.reason]
        ELSE [raised |-> NoException, prompts |-> <<prompt>>,
              composed_explanation |-> Text(parsed.composed_explanation),
              composer_verification_passed |-> check.passed, reason |-> check.reason,
              verifier_reason |-> check.reason]

composer_node(paras, eqs, linked, q, outcome, verifier_r) ==
    LET valid_source_ids == {p.paragraph_id : p \in Range(paras)}
                            \cup {e.equation_id : e \in Range(eqs)}
        prompt == build_composer_prompt(paras, eqs, linked, q)
        gen == GroqLLM_generate(outcome)
        parsed == parse_composer_response(gen.response)
        check == verify_composed_explanation(parsed.sentences, valid_source_ids, paras, eqs)
    IN  IF paras = <<>> /\ eqs = <<>>
        THEN [raised |-> NoException, prompts |-> <<>>, composed_explanation |-> Null,
              composer_verification_passed |-> FALSE, reason |-> "",
              verifier_reason |-> verifier_r]
        ELSE IF gen.raised # NoException
        THEN [raised |-> gen.raised, prompts |-> <<prompt>>, composed_explanation |-> Null,
              composer_verification_passed |-> FALSE, reason |-> "",
              verifier_reason |-> verifier_r]
        ELSE IF ~check.passed
        THEN [raised |-> NoException, prompts |-> <<prompt>>, composed_explanation |-> Null,
              composer_verification_passed |-> FALSE, reason |-> check.reason,
              verifier_reason |-> verifier_r \o " Composer: " \o check.reason]
        ELSE [raised |-> NoException, prompts |-> <<prompt>>,
              composed_explanation |-> Text(parsed.composed_explanation),
              composer_verification_passed |-> check.passed, reason |-> check.reason,
              verifier_reason |-> verifier_r \o " Composer: " \o check.reason]

\* sanitize_debug_output handing the raw debug dict on as it is
sanitize_debug_output_verbatim(raw_response) == Get(raw_response, "debug", NoDict)

(***************************************************************************)
(* POST /explain                                                           *)
(***************************************************************************)
\* sanitize_debug_output: None (modelled as the empty dict) or the safe fields
sanitize_debug_output(raw_response) ==
    LET raw_debug == Get(raw_response, "debug", NoDict)
        safe == DOMAIN raw_debug \cap {"planner_reason", "verifier_reason"}
        links == DOMAIN raw_debug \cap {"linked_evidence"}
    IN  [k \in safe \cup {"evidence_links" : x \in links} |->
            IF k = "evidence_links"
            THEN [i \in DOMAIN raw_debug["linked_evidence"] |->
                     [source_ids |-> Get(raw_debug["linked_evidence"][i], "source_ids", <<>>)]]
            ELSE raw_debug[k]]

\* the except clauses of explain(): the HTTPException each exception becomes
explain_except(exc) ==
    IF exc.type = "TimeoutError"
    THEN [status |-> 504, detail |-> "Request timed out while processing"]
    ELSE IF exc.type = "RuntimeError"
    THEN IF exc.rate_limit
         THEN [status |-> 429, detail |-> "Rate limit exceeded. Please try again later."]
         ELSE [status |-> 502, detail |-> "Language model service error"]
    ELSE IF exc.type = "ValueError"
    THEN [status |-> 500, detail |-> "Failed to parse model response"]
    ELSE [status |-> 500, detail |-> "Internal error while processing request"]

\* the ExplainResponse explain() builds from the workflow's final_response
explain_response(raw_response, debug) ==
    [status |-> 200,
     answer |-> Get(raw_response, "answer", NOT_DEFINED),
     citations |-> Get(raw_response, "citations", <<>>),
     confidence |-> Get(raw_response, "confidence", "low"),
     debug |-> IF debug THEN sanitize_debug_output(raw_response) ELSE NoDict]

(***************************************************************************)
(* What the model may answer                                               *)
(***************************************************************************)
SubstantiveAnswer == "Attention uses Q and K."

\* the objects the Explainer's model call may return
ExplainObjects ==
    {[answer |-> a, citations |-> c, confidence |-> k] :
        a \in {NOT_DEFINED, SubstantiveAnswer},
        c \in SeqsUpTo(IdUniverse, MaxCitations),
        k \in {"high", "low"}}
    \cup {[citations |-> <<"s1_p1">>, confidence |-> "high"]}
    \cup {[answer |-> SubstantiveAnswer, citations |-> <<"s1_p2", UnknownId, "s1_p1">>,
           confidence |-> "low"]}

ExplainContents ==
    {[fmt |-> "json", obj |-> o] : o \in ExplainObjects}
    \cup {[fmt |-> f, obj |-> [answer |-> SubstantiveAnswer, citations |-> <<"s1_p1">>,
                               confidence |-> "low"]] : f \in {"fenced", "embedded"}}
    \cup {[fmt |-> "prose", obj |-> NoDict]}

ExplainOutcomes == ClientFailures \cup {ClientAnswer(c) : c \in ExplainContents}

SentenceUniverse ==
    {[text |-> {"Attention", "uses", "Q"}, citation |-> "s1_p1"],
     [text |-> {"V"}, citation |-> "s1_p1"],
     [text |-> {"Attention"}, citation |-> ""],
     [text |-> {"Attention"}, citation |-> UnknownId],
     [text |-> {"decoder"}, citation |-> "s1_p1"],
     [text |-> {"layer"}, citation |-> "s1_p2"],
     [text |-> {"query"}, citation |-> "eq1"]}

Narrative == "Attention uses Q. [s1_p1]"

ComposerContents(n) ==
    {[fmt |-> "json", obj |-> [composed_explanation |-> Narrative, sentences |-> ss]] :
        ss \in SeqsUpTo(SentenceUniverse, n)}
    \cup {[fmt |-> "embedded",
           obj |-> [composed_explanation |-> Narrative,
                    sentences |-> <<[text |-> {"Attention", "uses", "Q"},
                                     citation |-> "s1_p1"]>>]]}
    \cup {[fmt |-> "prose", obj |-> NoDict]}

\* the model call of the Composer in a narrative of up to n sentences
ComposerOutcomes(n) == ClientFailures \cup {ClientAnswer(c) : c \in ComposerContents(n)}

(***************************************************************************)
(* The workflow: START -> planner -> retrieve_paragraphs -> explain ->     *)
(* verify -> evidence_linker -> composer -> END, run by POST /explain      *)
(***************************************************************************)
\* the document registry and its routes
DocumentRoutes == <<registry, files, tasks, lock, reader, reply>>

\* None
None == "None"

\* a request that has not been made
NoRequest ==
    [op |-> "", pc |-> "idle", document_id |-> "", status_code |-> 0, detail |-> "",
     document |-> None]

\* DocumentRegistry.__init__, with no task added and no request made
EmptyRegistry ==
    /\ registry = NoDict
    /\ files = {}
    /\ tasks = <<>>
    /\ lock = 0
    /\ reader = NoRequest
    /\ reply = NoRequest

Unset ==
    /\ candidate_paragraph_ids = <<>>
    /\ planner_selected_automatically = FALSE
    /\ planner_reason = ""
    /\ paragraphs = <<>>
    /\ equations = <<>>
    /\ llm_response = NoResponse
    /\ final_response = NoDict
    /\ verification_passed = FALSE
    /\ verifier_reason = ""
    /\ linked_evidence = <<>>
    /\ composed_explanation = Null
    /\ composer_verification_passed = FALSE
    /\ composer_reason = ""
    /\ call_history = <<>>
    /\ client_log = <<>>
    /\ exception = NoException
    /\ http = NoDict
    /\ raw_text = <<>>
    /\ parse_result = NoDict
    /\ ingest_input = NoDict
    /\ ingest_result = NoDict
    /\ EmptyRegistry

\* initial_state of explain_question, as explain() builds it
Init ==
    /\ pc = "planner"
    /\ document \in DocumentNames
    /\ paragraph_ids \in ExplicitIdLists
    /\ question \in Questions
    /\ include_debug \in BOOLEAN
    /\ Unset

Inputs == <<document, paragraph_ids, question, include_debug>>

\* the object extractor's and the ingestion's own state, which no node touches
Extraction == <<raw_text, parse_result, ingest_input, ingest_result>>

\* what the workflow's nodes and the route write
WorkflowState ==
    <<candidate_paragraph_ids, planner_selected_automatically, planner_reason,
      paragraphs, equations, llm_response, final_response, verification_passed,
      verifier_reason, linked_evidence, composed_explanation,
      composer_verification_passed, composer_reason, call_history, client_log,
      exception, http>>

Planner ==
    /\ pc = "planner"
    /\ LET r == planner_node(Document(document), paragraph_ids, question)
       IN  /\ candidate_paragraph_ids' = r.candidate_paragraph_ids
           /\ planner_reason' = r.planner_reason
           /\ planner_selected_automatically' = r.planner_selected_automatically
    /\ pc' = "retrieve_paragraphs"
    /\ UNCHANGED <<Inputs, Extraction, DocumentRoutes,
                   paragraphs, equations, llm_response, final_response,
                   verification_passed, verifier_reason, linked_evidence,
                   composed_explanation, composer_verification_passed,
                   composer_reason, call_history, client_log, exception, http>>

Retrieve ==
    /\ pc = "retrieve_paragraphs"
    /\ LET r == retrieve_paragraphs_node(Document(document), candidate_paragraph_ids,
                                         paragraph_ids)
       IN  /\ paragraphs' = r.paragraphs
           /\ equations' = r.equations
    /\ pc' = "explain"
    /\ UNCHANGED <<Inputs, Extraction, DocumentRoutes,
                   candidate_paragraph_ids, planner_selected_automatically,
                   planner_reason, llm_response, final_response,
                   verification_passed, verifier_reason, linked_evidence,
                   composed_explanation, composer_verification_passed,
                   composer_reason, call_history, client_log, exception, http>>

Explain ==
    /\ pc = "explain"
    /\ \E outcome \in ExplainOutcomes :
         LET r == explain_node(paragraphs, equations, question, outcome)
         IN  /\ call_history' = call_history \o r.prompts
             /\ client_log' = IF r.prompts = <<>> THEN client_log
                              ELSE Append(client_log, outcome)
             /\ IF r.raised # NoException
                THEN /\ pc' = "raised"
                     /\ exception' = r.raised
                     /\ UNCHANGED <<llm_response, final_response>>
                ELSE /\ pc' = "verify"
                     /\ llm_response' = r.llm_response
                     /\ final_response' = r.final_response
                     /\ UNCHANGED exception
    /\ UNCHANGED <<Inputs, Extraction, DocumentRoutes,
                   candidate_paragraph_ids, planner_selected_automatically,
                   planner_reason, paragraphs, equations,
                   verification_passed, verifier_reason, linked_evidence,
                   composed_explanation, composer_verification_passed,
                   composer_reason, http>>

Verify ==
    /\ pc = "verify"
    /\ LET r == verifier_node(final_response, paragraphs, include_debug,
                              planner_selected_automatically, planner_reason)
       IN  /\ final_response' = r.final_response
           /\ verification_passed' = r.verification_passed
           /\ verifier_reason' = r.verifier_reason
    /\ pc' = "evidence_linker"
    /\ UNCHANGED <<Inputs, Extraction, DocumentRoutes,
                   candidate_paragraph_ids, planner_selected_automatically,
                   planner_reason, paragraphs, equations, llm_response,
                   linked_evidence, composed_explanation,
                   composer_verification_passed, composer_reason, call_history,
                   client_log, exception, http>>

EvidenceLinker ==
    /\ pc = "evidence_linker"
    /\ \E order \in IterationOrders :
           linked_evidence' = evidence_linker_node(paragraphs, equations, order)
    /\ pc' = "composer"
    /\ UNCHANGED <<Inputs, Extraction, DocumentRoutes,
                   candidate_paragraph_ids, planner_selected_automatically,
                   planner_reason, paragraphs, equations, llm_response,
                   final_response, verification_passed, verifier_reason,
                   composed_explanation, composer_verification_passed,
                   composer_reason, call_history, client_log, exception, http>>

Composer(n) ==
    /\ pc = "composer"
    /\ \E outcome \in ComposerOutcomes(n) :
         LET r == composer_node(paragraphs, equations, linked_evidence, question,
                                outcome, verifier_reason)
         IN  /\ call_history' = call_history \o r.prompts
             /\ client_log' = IF r.prompts = <<>> THEN client_log
                              ELSE Append(client_log, outcome)
             /\ IF r.raised # NoException
                THEN /\ pc' = "raised"
                     /\ exception' = r.raised
                     /\ UNCHANGED <<composed_explanation, composer_verification_passed,
                                    composer_reason, verifier_reason>>
                ELSE /\ pc' = "END"
                     /\ composed_explanation' = r.composed_explanation
                     /\ composer_verification_passed' = r.composer_verification_passed
                     /\ composer_reason' = r.reason
                     /\ verifier_reason' = r.verifier_reason
                     /\ UNCHANGED exception
    /\ UNCHANGED <<Inputs, Extraction, DocumentRoutes,
                   candidate_paragraph_ids, planner_selected_automatically,
                   planner_reason, paragraphs, equations, llm_response,
                   final_response, verification_passed, linked_evidence, http>>

\* an exception of a node propagates through qa_graph.invoke to explain()
ExplainRaises ==
    /\ pc = "raised"
    /\ http' = explain_except(exception)
    /\ pc' = "responded"
    /\ UNCHANGED <<Inputs, Extraction, DocumentRoutes,
                   candidate_paragraph_ids, planner_selected_automatically,
                   planner_reason, paragraphs, equations, llm_response,
                   final_response, verification_passed, verifier_reason,
                   linked_evidence, composed_explanation,
                   composer_verification_passed, composer_reason, call_history,
                   client_log, exception>>

\* result["final_response"] is returned to explain(), which builds the response
ExplainReturns ==
    /\ pc = "END"
    /\ http' = explain_response(final_response, include_debug)
    /\ pc' = "responded"
    /\ UNCHANGED <<Inputs, Extraction, DocumentRoutes,
                   candidate_paragraph_ids, planner_selected_automatically,
                   planner_reason, paragraphs, equations, llm_response,
                   final_response, verification_passed, verifier_reason,
                   linked_evidence, composed_explanation,
                   composer_verification_passed, composer_reason, call_history,
                   client_log, exception>>

Next ==
    \/ Planner
    \/ Retrieve
    \/ Explain
    \/ Verify
    \/ EvidenceLinker
    \/ Composer(1)
    \/ ExplainRaises
    \/ ExplainReturns

Spec == Init /\ [][Next]_vars

(***************************************************************************)
(* Ingestion: parse_pdf_to_document and validate_unique_ids                *)
(***************************************************************************)
MaxBlocks == 3         \* most text blocks a model PDF splits into
MaxIds == 2            \* longest ID list of a hand-built section or equation list

\* f"s{section_index + 1}_p{paragraph_index + 1}"
generate_paragraph_id(section_index, paragraph_index) ==
    << <<"s1_p1", "s1_p2", "s1_p3", "s1_p4", "s1_p5">>,
       <<"s2_p1", "s2_p2", "s2_p3", "s2_p4", "s2_p5">>,
       <<"s3_p1", "s3_p2", "s3_p3", "s3_p4", "s3_p5">> >>[section_index + 1][paragraph_index + 1]

\* f"eq{equation_index + 1}"
generate_equation_id(equation_index) ==
    <<"eq1", "eq2", "eq3", "eq4", "eq5">>[equation_index + 1]

\* a block of the split text: a section header, a paragraph of prose, or a
\* paragraph that holds one formula
BlockKinds == {"header", "text", "formula"}

IngestParagraph(id, block) == [paragraph_id |-> id, text |-> block, equation_refs |-> <<>>]

IngestEquation(id, para_id) ==
    [equation_id |-> id, equation_text |-> "formula", associated_paragraph_id |-> para_id]

RECURSIVE build_sections(_, _, _, _, _, _)
\* the section loop of parse_pdf_to_document from block i on
build_sections(blocks, i, sections, current_paragraphs, section_index, paragraph_index) ==
    IF i > Len(blocks)
    THEN IF current_paragraphs # <<>>
         THEN Append(sections, [paragraphs |-> current_paragraphs])
         ELSE sections
    ELSE IF blocks[i] = "header" /\ current_paragraphs # <<>>
    THEN build_sections(blocks, i + 1,
                        Append(sections, [paragraphs |-> current_paragraphs]),
                        <<>>, section_index + 1, 0)
    ELSE IF blocks[i] = "header"
    THEN build_sections(blocks, i + 1, sections, current_paragraphs,
                        section_index, paragraph_index)
    ELSE build_sections(blocks, i + 1, sections,
                        Append(current_paragraphs,
                               IngestParagraph(generate_paragraph_id(section_index,
                                                                     paragraph_index),
                                               blocks[i])),
                        section_index, paragraph_index + 1)

RECURSIVE SectionParagraphs(_)
SectionParagraphs(sections) ==
    IF sections = <<>> THEN <<>>
    ELSE Head(sections).paragraphs \o SectionParagraphs(Tail(sections))

\* the equation index a paragraph's formula gets: the formulas met before it
FormulasBefore(sections, s, j) ==
    Cardinality({sj \in {<<t, k>> : t \in 1..s, k \in 1..MaxBlocks + MaxIds} :
                    /\ sj[2] \in DOMAIN sections[sj[1]].paragraphs
                    /\ sj[1] < s \/ sj[2] < j
                    /\ sections[sj[1]].paragraphs[sj[2]].text = "formula"})

\* extract_equations_from_document: the equations, in document order
extract_equations_from_document(doc) ==
    LET formulas == SelectSeq(SectionParagraphs(doc.sections), LAMBDA para : para.text = "formula")
    IN  [k \in 1..Len(formulas) |->
            IngestEquation(generate_equation_id(k - 1), formulas[k].paragraph_id)]

\* extract_equations_from_document: the paragraphs with their equation_refs
with_equation_refs(doc) ==
    [s \in DOMAIN doc.sections |->
        [paragraphs |->
            [j \in DOMAIN doc.sections[s].paragraphs |->
                LET para == doc.sections[s].paragraphs[j]
                IN  IF para.text = "formula"
                    THEN [para EXCEPT !.equation_refs =
                             <<generate_equation_id(FormulasBefore(doc.sections, s, j))>>]
                    ELSE para]]]

\* the IDs validate_unique_ids meets, in the order it meets them
Entries(doc) ==
    LET paras == SectionParagraphs(doc.sections)
    IN  [i \in 1..Len(paras) |-> [kind |-> "paragraph", id |-> paras[i].paragraph_id]]
        \o [i \in 1..Len(doc.equations) |->
               [kind |-> "equation", id |-> doc.equations[i].equation_id]]

RECURSIVE duplicates(_, _, _)
duplicates(entries, i, seen_ids) ==
    IF i > Len(entries) THEN <<>>
    ELSE (IF entries[i].id \in seen_ids THEN <<entries[i]>> ELSE <<>>)
         \o duplicates(entries, i + 1, seen_ids \cup {entries[i].id})

\* validate_unique_ids looking at the paragraphs only
validate_unique_ids_paragraphs_only(doc) ==
    IF duplicates(SelectSeq(Entries(doc), LAMBDA e : e.kind = "paragraph"), 1, {}) # <<>>
    THEN "ValueError"
    ELSE ""

\* what validate_unique_ids raises, "" when it returns
validate_unique_ids(doc) ==
    IF duplicates(Entries(doc), 1, {}) # <<>> THEN "ValueError" ELSE ""

NoDocument(raised) == [raised |-> raised, document |-> NoDict]

parse_pdf_to_document(blocks, extract_equations) ==
    LET doc == [sections |-> build_sections(blocks, 1, <<>>, <<>>, 0, 0),
                equations |-> <<>>]
        with_equations == [sections |-> with_equation_refs(doc),
                           equations |-> extract_equations_from_document(doc)]
    IN  IF validate_unique_ids(doc) # "" THEN NoDocument(validate_unique_ids(doc))
        ELSE IF ~extract_equations THEN [raised |-> "", document |-> doc]
        ELSE IF validate_unique_ids(with_equations) # ""
        THEN NoDocument(validate_unique_ids(with_equations))
        ELSE [raised |-> "", document |-> with_equations]

(***************************************************************************)
(* Ingestion on its own: every short model PDF, and hand-built documents   *)
(* whose IDs may repeat                                                    *)
(***************************************************************************)
IdPool == {"s1_p1", "s1_p2", "eq1"}

HandBuilt(first, second, eqs) ==
    [sections |->
        << [paragraphs |-> [i \in DOMAIN first |-> IngestParagraph(first[i], "text")]],
           [paragraphs |-> [i \in DOMAIN second |-> IngestParagraph(second[i], "text")]] >>,
     equations |-> [i \in DOMAIN eqs |-> IngestEquation(eqs[i], "s1_p1")]]

EmptyDocument == [sections |-> <<>>, equations |-> <<>>]

IngestInputs ==
    {[kind |-> "pdf", blocks |-> b, extract_equations |-> e, document |-> EmptyDocument] :
        b \in SeqsUpTo(BlockKinds, MaxBlocks), e \in BOOLEAN}
    \cup
    {[kind |-> "document", blocks |-> <<>>, extract_equations |-> FALSE,
      document |-> HandBuilt(first, second, eqs)] :
        first \in SeqsUpTo(IdPool, MaxIds), second \in SeqsUpTo(IdPool, 1),
        eqs \in SeqsUpTo(IdPool, MaxIds)}

InitIngest ==
    /\ pc = "ingest"
    /\ ingest_input \in IngestInputs
    /\ ingest_result = NoDict
    /\ EmptyRegistry
    /\ raw_text = <<>>
    /\ parse_result = NoDict
    /\ document = "attention_paper"
    /\ paragraph_ids = <<>>
    /\ question = {"What", "is", "attention"}
    /\ include_debug = FALSE
    /\ candidate_paragraph_ids = <<>>
    /\ planner_selected_automatically = FALSE
    /\ planner_reason = ""
    /\ paragraphs = <<>>
    /\ equations = <<>>
    /\ llm_response = NoResponse
    /\ final_response = NoDict
    /\ verification_passed = FALSE
    /\ verifier_reason = ""
    /\ linked_evidence = <<>>
    /\ composed_explanation = Null
    /\ composer_verification_passed = FALSE
    /\ composer_reason = ""
    /\ call_history = <<>>
    /\ client_log = <<>>
    /\ exception = NoException
    /\ http = NoDict

ParsePdfToDocument ==
    /\ pc = "ingest"
    /\ ingest_input.kind = "pdf"
    /\ ingest_result' = parse_pdf_to_document(ingest_input.blocks,
                                              ingest_input.extract_equations)
    /\ pc' = "ingested"
    /\ UNCHANGED <<Inputs, raw_text, parse_result, ingest_input, WorkflowState, DocumentRoutes>>

ValidateUniqueIds ==
    /\ pc = "ingest"
    /\ ingest_input.kind = "document"
    /\ ingest_result' = NoDocument(validate_unique_ids(ingest_input.document))
    /\ pc' = "validated"
    /\ UNCHANGED <<Inputs, raw_text, parse_result, ingest_input, WorkflowState, DocumentRoutes>>

NextIngest == ParsePdfToDocument \/ ValidateUniqueIds

SpecIngest == InitIngest /\ [][NextIngest]_vars

(***************************************************************************)
(* The object extractor on its own: objects embedded in prose or in a      *)
(* fenced block, and every short text over braces, quotes and backslashes  *)
(***************************************************************************)
Leads == {<<>>, <<"k", " ">>, <<"k", "{", "k", "}", " ">>, <<"}", " ">>, <<Quote, " ">>}

Trails == {<<>>, <<" ", "k">>, <<" ", "}">>, <<" ", "{", "k", "}">>, <<" ", Quote>>}

Wrappers == {"none", "json", "plain"}

\* the object's text as it stands in the model's answer
Wrap(w, body) ==
    IF w = "json" THEN <<Fence, "json", " ">> \o body \o <<" ", Fence>>
    ELSE IF w = "plain" THEN <<Fence, " ">> \o body \o <<" ", Fence>>
    ELSE body

Embed(lead, w, o, trail) == lead \o Wrap(w, dumps(o)) \o trail

EmbeddedTexts ==
    {Embed(lead, w, o, trail) :
        lead \in Leads, w \in Wrappers, o \in JsonObjects, trail \in Trails}

ShortTexts == SeqsUpTo({"{", "}", Quote, Backslash, "k"}, MaxText)

InitParser ==
    /\ pc = "parse"
    /\ raw_text \in EmbeddedTexts \cup ShortTexts
    /\ parse_result = NoDict
    /\ ingest_input = NoDict
    /\ ingest_result = NoDict
    /\ EmptyRegistry
    /\ document = "attention_paper"
    /\ paragraph_ids = <<>>
    /\ question = {"What", "is", "attention"}
    /\ include_debug = FALSE
    /\ candidate_paragraph_ids = <<>>
    /\ planner_selected_automatically = FALSE
    /\ planner_reason = ""
    /\ paragraphs = <<>>
    /\ equations = <<>>
    /\ llm_response = NoResponse
    /\ final_response = NoDict
    /\ verification_passed = FALSE
    /\ verifier_reason = ""
    /\ linked_evidence = <<>>
    /\ composed_explanation = Null
    /\ composer_verification_passed = FALSE
    /\ composer_reason = ""
    /\ call_history = <<>>
    /\ client_log = <<>>
    /\ exception = NoException
    /\ http = NoDict

ExtractJsonBlock ==
    /\ pc = "parse"
    /\ parse_result' = extract_json_block(raw_text)
    /\ pc' = "extracted"
    /\ UNCHANGED <<Inputs, raw_text, ingest_input, ingest_result, WorkflowState, DocumentRoutes>>

SafeParseJson ==
    /\ pc = "parse"
    /\ parse_result' = safe_parse_json_chars(raw_text)
    /\ pc' = "parsed"
    /\ UNCHANGED <<Inputs, raw_text, ingest_input, ingest_result, WorkflowState, DocumentRoutes>>

NextParser == ExtractJsonBlock \/ SafeParseJson

SpecParser == InitParser /\ [][NextParser]_vars

(***************************************************************************)
(* planner_node on its own, on the documents and questions of its tests    *)
(***************************************************************************)
InitPlanner ==
    /\ pc = "planner"
    /\ document \in DocumentNames \cup {"long_paper"}
    /\ paragraph_ids \in ExplicitIdLists
    /\ question \in Questions
    /\ include_debug \in BOOLEAN
    /\ Unset

NextPlanner == Planner

SpecPlanner == InitPlanner /\ [][NextPlanner]_vars

(***************************************************************************)
(* retrieve_paragraphs_node on its own, after a Planner or without one     *)
(***************************************************************************)
MaxCandidates == 2

CandidateLists == SeqsUpTo({"s1_p1", "s1_p2", "s2_p1", UnknownId}, MaxCandidates)

InitRetriever ==
    /\ pc = "retrieve_paragraphs"
    /\ document \in {"attention_paper", "equation_paper"}
    /\ \E c \in CandidateLists :
           \/ candidate_paragraph_ids = c /\ paragraph_ids \in {<<>>, c}
           \/ candidate_paragraph_ids = <<>> /\ paragraph_ids = c
    /\ question = {"What", "is", "attention"}
    /\ include_debug = FALSE
    /\ planner_selected_automatically = (paragraph_ids = <<>>)
    /\ planner_reason = ""
    /\ paragraphs = <<>>
    /\ equations = <<>>
    /\ llm_response = NoResponse
    /\ final_response = NoDict
    /\ verification_passed = FALSE
    /\ verifier_reason = ""
    /\ linked_evidence = <<>>
    /\ composed_explanation = Null
    /\ composer_verification_passed = FALSE
    /\ composer_reason = ""
    /\ call_history = <<>>
    /\ client_log = <<>>
    /\ exception = NoException
    /\ http = NoDict
    /\ raw_text = <<>>
    /\ parse_result = NoDict
    /\ ingest_input = NoDict
    /\ ingest_result = NoDict
    /\ EmptyRegistry

NextRetriever == Retrieve

SpecRetriever == InitRetriever /\ [][NextRetriever]_vars

(***************************************************************************)
(* evidence_linker_node on its own, on evidence with chains of shared      *)
(* entities                                                                *)
(***************************************************************************)
\* s4_p1 - s4_p2 share a variable, s4_p2 - s4_p3 a concept; s4_p4 - s4_p5 and
\* s4_p5 - s1_p2 share concepts; s2_p1 shares nothing
LinkerPool ==
    <<Para("s4_p1", {"Q", "is", "the"}, <<>>, NoEntities),
      Para("s4_p2", {"Q", "softmax"}, <<>>, NoEntities),
      Para("s4_p3", {"softmax", "V"}, <<>>, NoEntities),
      Para("s4_p4", {"decoder"}, <<>>, NoEntities),
      Para("s4_p5", {"encoder", "decoder"}, <<>>, NoEntities),
      P_s1_p2,
      P_s2_p1>>

\* the paragraphs of the pool at the places in S, in the pool's order
PoolList(S) == FilterSeq(LinkerPool, {LinkerPool[i] : i \in S})

InitLinker ==
    /\ pc = "evidence_linker"
    /\ document = "attention_paper"
    /\ paragraph_ids = <<>>
    /\ question = {"What", "is", "attention"}
    /\ include_debug = FALSE
    /\ candidate_paragraph_ids = <<>>
    /\ planner_selected_automatically = FALSE
    /\ planner_reason = ""
    /\ paragraphs \in {PoolList(S) : S \in SUBSET DOMAIN LinkerPool}
    /\ equations \in {<<>>, <<Eq_eq1>>, <<Eq_eq2>>, <<Eq_eq1, Eq_eq2>>}
    /\ llm_response = NoResponse
    /\ final_response = [answer |-> NOT_DEFINED, citations |-> <<>>, confidence |-> "low"]
    /\ verification_passed = TRUE
    /\ verifier_reason = "PASSED: Answer correctly indicates topic not defined in paper."
    /\ linked_evidence = <<>>
    /\ composed_explanation = Null
    /\ composer_verification_passed = FALSE
    /\ composer_reason = ""
    /\ call_history = <<>>
    /\ client_log = <<>>
    /\ exception = NoException
    /\ http = NoDict
    /\ raw_text = <<>>
    /\ parse_result = NoDict
    /\ ingest_input = NoDict
    /\ ingest_result = NoDict
    /\ EmptyRegistry

NextLinker == EvidenceLinker

SpecLinker == InitLinker /\ [][NextLinker]_vars

(***************************************************************************)
(* verifier_node on its own, on the states its unit tests build            *)
(***************************************************************************)
ParagraphLists == {<<>>, <<P_s1_p1>>, <<P_s1_p1, P_s1_p2>>, <<P_s2_p1>>}

\* no equations, or the equation the paragraphs refer to
EquationLists(paras) ==
    {<<>>} \cup {<<Eq_eq1>> : p \in {q \in Range(paras) : "eq1" \in Range(q.equation_refs)}}

Drafts ==
    {[answer |-> a, citations |-> c] :
        a \in {NOT_DEFINED, SubstantiveAnswer}, c \in SeqsUpTo(IdUniverse, MaxCitations)}

InitVerifier ==
    /\ pc = "verify"
    /\ document = "attention_paper"
    /\ paragraph_ids = <<>>
    /\ question = {"What", "is", "attention"}
    /\ include_debug \in BOOLEAN
    /\ candidate_paragraph_ids = <<>>
    /\ planner_selected_automatically \in BOOLEAN
    /\ planner_reason = ""
    /\ paragraphs \in ParagraphLists
    /\ equations \in EquationLists(paragraphs)
    /\ llm_response = NoResponse
    /\ final_response \in Drafts
    /\ verification_passed = FALSE
    /\ verifier_reason = ""
    /\ linked_evidence = <<>>
    /\ composed_explanation = Null
    /\ composer_verification_passed = FALSE
    /\ composer_reason = ""
    /\ call_history = <<>>
    /\ client_log = <<>>
    /\ exception = NoException
    /\ http = NoDict
    /\ raw_text = <<>>
    /\ parse_result = NoDict
    /\ ingest_input = NoDict
    /\ ingest_result = NoDict
    /\ EmptyRegistry

\* verifier_node run a second time, on the output of a rejection
Reverify ==
    /\ pc = "evidence_linker"
    /\ ~verification_passed
    /\ LET r == verifier_node(final_response, paragraphs, include_debug,
                              planner_selected_automatically, planner_reason)
       IN  /\ final_response' = r.final_response
           /\ verification_passed' = r.verification_passed
           /\ verifier_reason' = r.verifier_reason
    /\ pc' = "reverified"
    /\ UNCHANGED <<Inputs, Extraction, DocumentRoutes,
                   candidate_paragraph_ids, planner_selected_automatically,
                   planner_reason, paragraphs, equations, llm_response,
                   linked_evidence, composed_explanation,
                   composer_verification_passed, composer_reason, call_history,
                   client_log, exception, http>>

NextVerifier == Verify \/ Reverify

SpecVerifier == InitVerifier /\ [][NextVerifier]_vars

(***************************************************************************)
(* composer_node on its own, on the states its unit tests build            *)
(***************************************************************************)
InitComposer ==
    /\ pc = "composer"
    /\ document = "attention_paper"
    /\ paragraph_ids = <<>>
    /\ question = {"What", "is", "attention"}
    /\ include_debug = FALSE
    /\ candidate_paragraph_ids = <<>>
    /\ planner_selected_automatically = FALSE
    /\ planner_reason = ""
    /\ paragraphs \in ParagraphLists
    /\ equations \in EquationLists(paragraphs)
    /\ llm_response = NoResponse
    /\ final_response = NoDict
    /\ verification_passed = TRUE
    /\ verifier_reason = "PASSED: Answer grounded with valid citations."
    /\ \E order \in IterationOrders :
           linked_evidence = evidence_linker_node(paragraphs, equations, order)
    /\ composed_explanation = Null
    /\ composer_verification_passed = FALSE
    /\ composer_reason = ""
    /\ call_history = <<>>
    /\ client_log = <<>>
    /\ exception = NoException
    /\ http = NoDict
    /\ raw_text = <<>>
    /\ parse_result = NoDict
    /\ ingest_input = NoDict
    /\ ingest_result = NoDict
    /\ EmptyRegistry

NextComposer == Composer(MaxSentences)

SpecComposer == InitComposer /\ [][NextComposer]_vars

(***************************************************************************)
(* The response building of explain() on its own: what the verifier hands  *)
(* back, and raw responses whose debug dict holds more than the route lets *)
(* through                                                                 *)
(***************************************************************************)
DebugKeys ==
    {"planner_reason", "verifier_reason", "linked_evidence", "prompt", "messages", "state"}

LinkedEvidenceLists ==
    {<<>>,
     <<[source_ids |-> <<"s1_p1", "s1_p2">>, shared_entities |-> <<"attention">>,
        combined_text |-> "some text"]>>,
     <<[source_ids |-> <<"s1_p1", "s1_p2">>, shared_entities |-> <<"attention">>,
        combined_text |-> "some text"],
       [shared_entities |-> <<"transformer">>, combined_text |-> "other text"]>>}

RawDebug(keys, links) ==
    [k \in keys |->
        IF k = "linked_evidence" THEN links
        ELSE IF k = "messages" THEN <<[role |-> "user", content |-> "secret"]>>
        ELSE IF k = "state" THEN [llm_response |-> "raw model text"]
        ELSE IF k = "prompt" THEN "This is a secret prompt"
        ELSE "test"]

RawResponses(debug) ==
    {Put([answer |-> SubstantiveAnswer, citations |-> <<"s1_p1">>, confidence |-> "high"],
         "debug", RawDebug(keys, links)) :
        keys \in SUBSET DebugKeys, links \in LinkedEvidenceLists}
    \cup {[answer |-> SubstantiveAnswer, citations |-> <<"s1_p1">>, confidence |-> "high"]}
    \cup {verifier_node(d, <<P_s1_p1>>, debug, auto, "Using 1 explicitly provided paragraph IDs.").final_response :
            d \in Drafts, auto \in BOOLEAN}

InitRoute ==
    /\ pc = "END"
    /\ document = "attention_paper"
    /\ paragraph_ids = <<>>
    /\ question = {"What", "is", "attention"}
    /\ include_debug \in BOOLEAN
    /\ candidate_paragraph_ids = <<>>
    /\ planner_selected_automatically = FALSE
    /\ planner_reason = ""
    /\ paragraphs = <<>>
    /\ equations = <<>>
    /\ llm_response = NoResponse
    /\ final_response \in RawResponses(include_debug)
    /\ verification_passed = FALSE
    /\ verifier_reason = ""
    /\ linked_evidence = <<>>
    /\ composed_explanation = Null
    /\ composer_verification_passed = FALSE
    /\ composer_reason = ""
    /\ call_history = <<>>
    /\ client_log = <<>>
    /\ exception = NoException
    /\ http = NoDict
    /\ raw_text = <<>>
    /\ parse_result = NoDict
    /\ ingest_input = NoDict
    /\ ingest_result = NoDict
    /\ EmptyRegistry

NextRoute == ExplainReturns

SpecRoute == InitRoute /\ [][NextRoute]_vars

(***************************************************************************)
(* Observations shared by the properties                                   *)
(***************************************************************************)
\* the evidence IDs labelled in the prompts the Explainer sent
SuppliedIds ==
    UNION {Range(call_history[i].paragraph_ids) \cup Range(call_history[i].equation_ids) :
              i \in {j \in DOMAIN call_history : call_history[j].stage = "explain"}}

RetrievedParagraphIds == {p.paragraph_id : p \in Range(paragraphs)}

RetrievedIds == RetrievedParagraphIds \cup {e.equation_id : e \in Range(equations)}

DocumentIds == ParagraphIdsOf(Document(document)) \cup EquationIdsOf(Document(document))

Called == client_log # <<>>

LastOutcome == client_log[Len(client_log)]

LastStage == call_history[Len(call_history)].stage

Answered == pc = "responded" /\ http.status = 200

AfterExplain == pc \in {"verify", "evidence_linker", "composer", "END"} \/ Answered

AfterVerify == pc \in {"evidence_linker", "composer", "END"} \/ Answered

(***************************************************************************)
(* Properties                                                              *)
(***************************************************************************)

C2_CitationSubset ==
    Answered =>
        /\ Range(http.citations) \subseteq SuppliedIds
        /\ Range(http.citations) \subseteq RetrievedIds
        /\ SuppliedIds # DocumentIds => Range(http.citations) # DocumentIds

C2_Witness ==
    /\ Answered
    /\ http.citations # <<>>
    /\ Range(llm_response.obj["citations"]) \ SuppliedIds # {}
    /\ SuppliedIds # DocumentIds

\* the rejection rules as the claim states them, over the IDs in evidenceIds
RuleA(draft) == draft["answer"] # NOT_DEFINED /\ draft["citations"] = <<>>

RuleB(draft, evidenceIds) == Range(draft["citations"]) \ evidenceIds # {}

VerifierContract(evidenceIds) ==
    pc = "verify" =>
        IF RuleA(final_response) \/ RuleB(final_response, evidenceIds)
        THEN /\ final_response'["answer"] = NOT_DEFINED
             /\ final_response'["citations"] = <<>>
             /\ final_response'["confidence"] = "low"
             /\ verification_passed' = FALSE
        ELSE /\ verification_passed' = TRUE
             /\ final_response'["answer"] = final_response["answer"]
             /\ final_response'["citations"] = final_response["citations"]

WithConfidence(o, k) == [o EXCEPT !.content.obj = Put(@, "confidence", k)]

\* the Explainer's client outcome of the run that differs only in the
\* confidence k the model reports (no outcome when the model was not called)
TwinOutcome(k) ==
    IF client_log = <<>> THEN ClientAnswer(NoResponse) ELSE WithConfidence(client_log[1], k)

\* the response of that run
TwinResponse(k) ==
    verifier_node(explain_node(paragraphs, equations, question,
                               TwinOutcome(k)).final_response,
                  paragraphs, include_debug, planner_selected_automatically,
                  planner_reason).final_response

C6_RefusalAlwaysLow ==
    (Answered /\ http.answer = NOT_DEFINED) => http.confidence = "low"

\* one sentence of a narrative passes every check of verify_composed_explanation
SentenceGrounded(sent) ==
    /\ sent.citation # ""
    /\ sent.citation \in RetrievedIds
    /\ extract_variables(sent.text) \subseteq AllowedEntities(paragraphs, equations)
    /\ (extract_concepts(sent.text) \cap TECHNICAL_CONCEPTS)
           \subseteq AllowedEntities(paragraphs, equations)

ComposedSentences == Get(LastOutcome.content.obj, "sentences", <<>>)

\* C7: the Composer is all-or-nothing: a narrative is returned only when the
\* sentence list is non-empty and every sentence passes every check; one
\* failing sentence gives composed_explanation = null and
\* composer_verification_passed = false.
C7_ComposerAllOrNothing ==
    pc = "END" =>
        /\ ~composed_explanation.null =>
               /\ composer_verification_passed
               /\ Called /\ LastStage = "composer"
               /\ ComposedSentences # <<>>
               /\ \A i \in DOMAIN ComposedSentences : SentenceGrounded(ComposedSentences[i])
        /\ (Called /\ \E i \in DOMAIN ComposedSentences :
                          ~SentenceGrounded(ComposedSentences[i])) =>
               /\ composed_explanation = Null
               /\ ~composer_verification_passed

C7_Witness ==
    /\ pc = "END"
    /\ composed_explanation = Null
    /\ Called
    /\ Len(ComposedSentences) = 2
    /\ SentenceGrounded(ComposedSentences[1])
    /\ ~SentenceGrounded(ComposedSentences[2])
    /\ extract_variables(ComposedSentences[2].text)
           \ AllowedEntities(paragraphs, equations) # {}

\* C8: a model call that times out ends the run with a timeout error (504),
\* distinct from the error of an upstream failure such as rate limiting
\* (429, 502); no response is returned in place of the error, and no stage
\* calls the model twice.
C8_TimeoutDistinct ==
    /\ \A i, j \in DOMAIN call_history :
           call_history[i].stage = call_history[j].stage => i = j
    /\ (Called /\ LastOutcome.kind # "content") =>
           /\ pc \in {"raised", "responded"}
           /\ exception.type = IF LastOutcome.kind = "exception" /\ LastOutcome.timeout
                               THEN "TimeoutError" ELSE "RuntimeError"
           /\ pc = "responded" =>
                  /\ DOMAIN http = {"status", "detail"}
                  /\ http.status = (IF LastOutcome.kind = "exception" /\ LastOutcome.timeout
                                    THEN 504
                                    ELSE IF LastOutcome.rate_limit THEN 429 ELSE 502)

C8_Witness ==
    /\ pc = "responded"
    /\ http.status = 504
    /\ LastStage = "composer"
    /\ verification_passed

NoObject == Called /\ LastOutcome.kind = "content" /\ LastOutcome.content.fmt = "prose"

ParseErrorSurfaced ==
    /\ pc \in {"raised", "responded"}
    /\ exception.type = "ValueError"
    /\ pc = "responded" => http = [status |-> 500, detail |-> "Failed to parse model response"]

KeepsExactly(ids) ==
    (pc = "verify" /\ llm_response # NoResponse) =>
        final_response["citations"] = FilterSeq(Get(llm_response.obj, "citations", <<>>), ids)

KeepsAnswer(ids) ==
    (Answered /\ llm_response # NoResponse) =>
        LET kept == FilterSeq(Get(llm_response.obj, "citations", <<>>), ids)
        IN  kept # <<>> =>
                /\ http.answer = Get(llm_response.obj, "answer", NOT_DEFINED)
                /\ http.citations = kept

Verdict(response) ==
    <<response["answer"], response["citations"], response["confidence"]>>

\* C12 as stated: verifier_node applied to its own rejected output, with the
\* same evidence and flag, returns the same answer, citations and confidence
\* and the same rejected outcome, passed = false.
C12_Original ==
    [][pc' = "reverified" =>
          /\ Verdict(final_response') = Verdict(final_response)
          /\ verification_passed' = FALSE]_vars

\* C12 amended: verifier_node applied to its own rejected output returns the
\* same answer (the refusal), citations (none) and confidence (low), but as
\* an accepted answer: passed = true, with the reason of a passing refusal.
C12_Amended ==
    [][pc' = "reverified" =>
          /\ Verdict(final_response') = Verdict(final_response)
          /\ Verdict(final_response') = <<NOT_DEFINED, <<>>, "low">>
          /\ verification_passed' = TRUE
          /\ verifier_reason' \in
                 {"PASSED: Answer correctly indicates topic not defined in paper."
                      \o " Confidence=low due to: no citations.",
                  "PASSED: Answer correctly indicates topic not defined in paper."
                      \o " Confidence=low due to: no citations, paragraphs provided manually."}]_vars

C12_Witness ==
    /\ pc = "reverified"
    /\ planner_selected_automatically
    /\ paragraphs # <<>>
    /\ Verdict(final_response) = <<NOT_DEFINED, <<>>, "low">>

\* the reference select(): keyword overlap of the i-th paragraph of the
\* document with the question
Overlap(i) ==
    Cardinality(extract_keywords(question)
                \cap extract_keywords(AllParagraphs(Document(document))[i].text))

Matching == {i \in DOMAIN AllParagraphs(Document(document)) : Overlap(i) > 0}

\* the number of matching paragraphs that come before the i-th: higher
\* overlap, or the same overlap earlier in the document
Preceding(i) ==
    Cardinality({j \in Matching :
                    \/ Overlap(j) > Overlap(i)
                    \/ (Overlap(j) = Overlap(i) /\ j < i)})

select ==
    IF paragraph_ids # <<>>
    THEN [candidates |-> paragraph_ids, autoSelected |-> FALSE]
    ELSE [candidates |->
              [k \in 1..(IF Cardinality(Matching) < 10 THEN Cardinality(Matching) ELSE 10) |->
                  AllParagraphs(Document(document))
                      [CHOOSE i \in Matching : Preceding(i) = k - 1].paragraph_id],
          autoSelected |-> TRUE]

Requested == IF candidate_paragraph_ids # <<>> THEN candidate_paragraph_ids ELSE paragraph_ids

\* the equation_refs of the retrieved paragraphs, in paragraph order
ReferenceList == Flatten([i \in DOMAIN paragraphs |-> paragraphs[i].equation_refs])

ByAssociation(e) == e.associated_paragraph_id \in RetrievedParagraphIds

\* the place of the first reference to an equation
FirstReference(e) ==
    CHOOSE i \in DOMAIN ReferenceList :
        /\ ReferenceList[i] = e.equation_id
        /\ \A j \in 1..(i - 1) : ReferenceList[j] # e.equation_id

\* C14: the Retriever's equations are exactly the Document's equations that
\* are associated with a retrieved paragraph or referenced by one; none
\* occurs twice; association matches come first, then the referenced ones in
\* the order of their first reference; unknown requested IDs contribute no
\* paragraph and no equation, and raise nothing.
C14_RetrievedEquations ==
    pc = "explain" =>
        /\ Range(equations) =
               {e \in Range(Document(document).equations) :
                    ByAssociation(e) \/ e.equation_id \in Range(ReferenceList)}
        /\ \A i, j \in DOMAIN equations :
               equations[i].equation_id = equations[j].equation_id => i = j
        /\ \A i, j \in DOMAIN equations :
               i < j => \/ ByAssociation(equations[i])
                        \/ /\ ~ByAssociation(equations[j])
                           /\ FirstReference(equations[i]) < FirstReference(equations[j])
        /\ [i \in DOMAIN paragraphs |-> paragraphs[i].paragraph_id] =
               FilterSeq(Requested, ParagraphIdsOf(Document(document)))
        /\ exception = NoException

C14_Witness ==
    /\ pc = "explain"
    /\ document = "equation_paper"
    /\ candidate_paragraph_ids = <<"s2_p1", "s1_p2">>
    /\ equations = <<Eq_eq2, Eq_eq1>>

\* the variables and the concepts of the evidence unit with this ID
UnitEntities(id) ==
    IF \E e \in Range(equations) : e.equation_id = id
    THEN extract_entities_as_model(
             (CHOOSE e \in Range(equations) : e.equation_id = id).equation_text)
    ELSE ParagraphEntities(CHOOSE p \in Range(paragraphs) : p.paragraph_id = id)

\* two evidence units share at least one variable or concept
Shares(a, b) ==
    \/ UnitEntities(a).variables \cap UnitEntities(b).variables # {}
    \/ UnitEntities(a).concepts \cap UnitEntities(b).concepts # {}

RECURSIVE Chained(_)
\* the evidence units reachable from S by chains of shared entities
Chained(S) ==
    LET T == S \cup {b \in RetrievedIds : \E a \in S : Shares(a, b)}
    IN  IF T = S THEN S ELSE Chained(T)

Groups == {Range(linked_evidence[i].source_ids) : i \in DOMAIN linked_evidence}

\* C15: the groups of evidence_linker_node are exactly the connected
\* components with at least two members of the relation "shares a variable
\* or a concept": chains are followed, unchained units are never grouped,
\* singletons are left out and no ID is in two groups.
C15_ConnectedComponents ==
    pc = "composer" =>
        /\ Groups = {Chained({a}) : a \in {b \in RetrievedIds : Cardinality(Chained({b})) >= 2}}
        /\ Cardinality(Groups) = Len(linked_evidence)
        /\ \A i \in DOMAIN linked_evidence :
               Len(linked_evidence[i].source_ids)
                   = Cardinality(Range(linked_evidence[i].source_ids))
        /\ \A g, h \in Groups : g # h => g \cap h = {}

\* a chain through a variable then a concept, next to a second group and a
\* unit that is linked to nothing
C15_Witness ==
    /\ pc = "composer"
    /\ Groups = {{"s4_p1", "s4_p2", "s4_p3"}, {"s4_p4", "s4_p5", "s1_p2"}}
    /\ "s2_p1" \in RetrievedIds
    /\ ~Shares("s4_p1", "s4_p3")

\* the entities of one kind that occur in at least two members of a group
InTwoMembers(members, kind) ==
    {x \in UNION {UnitEntities(a)[kind] : a \in members} :
        \E a, b \in members : a # b /\ x \in UnitEntities(a)[kind] \cap UnitEntities(b)[kind]}

\* a list of strings in strictly increasing order
Increasing(s) ==
    \A i, j \in DOMAIN s :
        i < j => \E m, n \in DOMAIN SortOrder :
                     m < n /\ SortOrder[m] = s[i] /\ SortOrder[n] = s[j]

\* C16: in every group the shared variables (concepts) are exactly the
\* variables (concepts) that occur in at least two members, in sorted order.
C16_SharedEntities ==
    pc = "composer" =>
        \A i \in DOMAIN linked_evidence :
            LET link == linked_evidence[i]
                members == Range(link.source_ids)
            IN  /\ Range(link.shared_entities.variables) = InTwoMembers(members, "variables")
                /\ Range(link.shared_entities.concepts) = InTwoMembers(members, "concepts")
                /\ Increasing(link.shared_entities.variables)
                /\ Increasing(link.shared_entities.concepts)

\* Q is in two of the three members and is shared, V is in one and is not
C16_Witness ==
    /\ pc = "composer"
    /\ \E i \in DOMAIN linked_evidence :
           /\ linked_evidence[i].source_ids = <<"s4_p1", "s4_p2", "s4_p3">>
           /\ linked_evidence[i].shared_entities.variables = <<"Q">>
           /\ linked_evidence[i].shared_entities.concepts = <<"softmax">>
    /\ "V" \in UnitEntities("s4_p3").variables

\* parsing the object's own text, and the object read back from a text that
\* embeds it, for the embeddings that satisfy the condition
RoundTrip(allowed(_, _)) ==
    pc = "parsed" =>
        \A lead \in Leads, w \in Wrappers, o \in JsonObjects, trail \in Trails :
            (allowed(lead, w) /\ raw_text = Embed(lead, w, o, trail)) =>
                /\ parse_result = json_loads(dumps(o))
                /\ parse_result.raised = ""
                /\ parse_result.value = o

AnyProse(lead, w) == TRUE

BraceFreeLead(lead, w) == w = "none" => "{" \notin Range(lead)

RECURSIVE state_after(_, _, _)
state_after(text, start, i) ==
    IF i < start THEN [depth |-> 0, in_string |-> FALSE, escape_next |-> FALSE]
    ELSE LET before == state_after(text, start, i - 1)
             ch == text[i]
         IN  IF before.escape_next THEN [before EXCEPT !.escape_next = FALSE]
             ELSE IF ch = Backslash THEN [before EXCEPT !.escape_next = TRUE]
             ELSE IF ch = Quote THEN [before EXCEPT !.in_string = ~before.in_string]
             ELSE IF before.in_string THEN before
             ELSE IF ch = "{" THEN [before EXCEPT !.depth = before.depth + 1]
             ELSE IF ch = "}" THEN [before EXCEPT !.depth = before.depth - 1]
             ELSE before

OpeningBraces(text) == {i \in 1..Len(text) : text[i] = "{"}

FirstOpening(text) ==
    CHOOSE i \in OpeningBraces(text) : \A j \in OpeningBraces(text) : i <= j

\* the positions where the depth counted from the first opening brace is
\* back at 0 for the first time
Closings(text) ==
    {i \in FirstOpening(text)..Len(text) :
        /\ state_after(text, FirstOpening(text), i).depth = 0
        /\ \A j \in FirstOpening(text)..(i - 1) :
               state_after(text, FirstOpening(text), j).depth > 0}

Unterminated(text) == OpeningBraces(text) # {} /\ Closings(text) = {}

\* a closing brace, outside any string, that no opening brace precedes
StrayClosing(text) ==
    \E i \in 1..Len(text) :
        /\ text[i] = "}"
        /\ state_after(text, 1, i - 1) = [depth |-> 0, in_string |-> FALSE, escape_next |-> FALSE]

Failed(result) == result.raised # "" /\ result.value = <<>>

\* C18 as stated: extract_json_block fails, returning no substring, when
\* the text has no opening brace, when the text ends at a depth above 0,
\* and when a closing brace occurs at depth 0.
C18_Original ==
    pc = "extracted" =>
        /\ OpeningBraces(raw_text) = {} => Failed(parse_result)
        /\ Unterminated(raw_text) => Failed(parse_result)
        /\ StrayClosing(raw_text) => Failed(parse_result)

\* C18 amended: extract_json_block fails, returning no substring, exactly
\* when the text has no opening brace or ends at a depth above 0 counted
\* from its first opening brace; otherwise it returns the text from that
\* brace to the brace that brings the depth back to 0, a closing brace
\* before the first opening brace is passed over, and the extra closing
\* brace error is never raised.
C18_Amended ==
    pc = "extracted" =>
        /\ parse_result.raised # "Unbalanced JSON braces - extra closing brace"
        /\ IF OpeningBraces(raw_text) = {}
           THEN parse_result = NoBlock("No JSON object found in text")
           ELSE IF Unterminated(raw_text)
           THEN parse_result = NoBlock("Unbalanced JSON braces - unclosed object")
           ELSE \E end \in Closings(raw_text) :
                    parse_result =
                        [raised |-> "",
                         value |-> SubSeq(raw_text, FirstOpening(raw_text), end)]

C18_Witness ==
    /\ pc = "extracted"
    /\ raw_text = <<"{", "{", "k", "}">>
    /\ Unterminated(raw_text)
    /\ parse_result = NoBlock("Unbalanced JSON braces - unclosed object")

AllIds(doc) == [i \in DOMAIN Entries(doc) |-> Entries(doc)[i].id]

Distinct(ids) == \A i, j \in DOMAIN ids : i # j => ids[i] # ids[j]

\* C19: ingestion returns a document whose paragraph and equation IDs are
\* pairwise distinct across both kinds, or raises and returns no document;
\* validate_unique_ids raises exactly when some ID occurs more than once
\* among the paragraphs and equations, an equation ID equal to a paragraph
\* ID included.
C19_UniqueIds ==
    /\ pc = "ingested" =>
           \/ /\ ingest_result.raised = ""
              /\ Distinct(AllIds(ingest_result.document))
           \/ /\ ingest_result.raised = "ValueError"
              /\ ingest_result.document = NoDict
    /\ pc = "validated" =>
           (ingest_result.raised = "ValueError"
                <=> ~Distinct(AllIds(ingest_input.document)))

C19_Witness ==
    /\ pc = "validated"
    /\ ingest_input.document = HandBuilt(<<"s1_p1", "s1_p2">>, <<>>, <<"eq1", "s1_p2">>)
    /\ ingest_result = NoDocument("ValueError")

SafeDebugKeys == {"planner_reason", "verifier_reason", "evidence_links"}

\* C20: the response carries a debug object only when include_debug was
\* requested; when present its keys are among planner_reason,
\* verifier_reason and evidence_links, each evidence_links entry holds
\* only source_ids, and no prompt, message or state field is present,
\* on passing and on rejected answers alike.
C20_DebugIsSanitized ==
    (pc = "responded" /\ "debug" \in DOMAIN http) =>
        /\ http.debug # NoDict => include_debug
        /\ DOMAIN http.debug \subseteq SafeDebugKeys
        /\ DOMAIN http.debug \cap {"prompt", "messages", "state", "linked_evidence"} = {}
        /\ "evidence_links" \in DOMAIN http.debug =>
               \A i \in DOMAIN http.debug["evidence_links"] :
                   DOMAIN http.debug["evidence_links"][i] = {"source_ids"}

C20_Witness ==
    /\ pc = "responded"
    /\ include_debug
    /\ "debug" \in DOMAIN final_response
    /\ DOMAIN final_response["debug"] = DebugKeys
    /\ "linked_evidence" \in DOMAIN final_response["debug"]
    /\ Len(final_response["debug"]["linked_evidence"]) = 2
    /\ DOMAIN http.debug = SafeDebugKeys
    /\ http.debug["evidence_links"] =
           <<[source_ids |-> <<"s1_p1", "s1_p2">>], [source_ids |-> <<>>]>>

ComposerCalled == \E i \in DOMAIN call_history : call_history[i].stage = "composer"

\* C30 as stated: a non-null composed narrative is produced only if the
\* Verifier passed the answer in that run; when the Verifier rejected the
\* answer, the Composer produces no narrative and does not invoke the model.
C30_ComposerOnlyAfterPass ==
    /\ composed_explanation # Null => verification_passed
    /\ (AfterVerify /\ ~verification_passed) => ~ComposerCalled

\* the fields no stage after their owner touches
OwnedFieldsKept ==
    /\ <<candidate_paragraph_ids, planner_selected_automatically, planner_reason>>'
           # <<candidate_paragraph_ids, planner_selected_automatically, planner_reason>>
       => pc = "planner"
    /\ <<paragraphs, equations>>' # <<paragraphs, equations>> => pc = "retrieve_paragraphs"
    /\ llm_response' # llm_response => pc = "explain"
    /\ verification_passed' # verification_passed => pc = "verify"
    /\ linked_evidence' # linked_evidence => pc = "evidence_linker"
    /\ <<composed_explanation, composer_verification_passed>>'
           # <<composed_explanation, composer_verification_passed>>
       => pc = "composer"

LacksCitation(sent) == sent.citation = ""

InvalidCitation(sent) == sent.citation \notin RetrievedIds

NewVariable(sent) ==
    extract_variables(sent.text) \ AllowedEntities(paragraphs, equations) # {}

NewTechnicalConcept(sent) ==
    (extract_concepts(sent.text) \cap TECHNICAL_CONCEPTS)
        \ AllowedEntities(paragraphs, equations) # {}

Lowest(S) == CHOOSE i \in S : \A j \in S : i <= j

\* the verdict when the rules are tried one after another, each on every
\* sentence
RuleOrderReason(ss) ==
    IF ss = <<>> THEN "REJECTED: No sentences in composed explanation."
    ELSE IF \E i \in DOMAIN ss : LacksCitation(ss[i])
    THEN "REJECTED: Sentence lacks a citation."
    ELSE IF \E i \in DOMAIN ss : InvalidCitation(ss[i])
    THEN "REJECTED: Invalid citation not in sources."
    ELSE IF \E i \in DOMAIN ss : NewVariable(ss[i])
    THEN "REJECTED: New variable introduced in composed explanation."
    ELSE IF \E i \in DOMAIN ss : NewTechnicalConcept(ss[i])
    THEN "REJECTED: New technical concept introduced in composed explanation."
    ELSE "PASSED: Composed explanation verified."

\* the verdict when the citation rules are tried sentence by sentence, and
\* then the entity rules sentence by sentence
SentenceOrderReason(ss) ==
    LET uncited == {i \in DOMAIN ss : LacksCitation(ss[i]) \/ InvalidCitation(ss[i])}
        ungrounded == {i \in DOMAIN ss : NewVariable(ss[i]) \/ NewTechnicalConcept(ss[i])}
    IN  IF ss = <<>> THEN "REJECTED: No sentences in composed explanation."
        ELSE IF uncited # {}
        THEN IF LacksCitation(ss[Lowest(uncited)])
             THEN "REJECTED: Sentence lacks a citation."
             ELSE "REJECTED: Invalid citation not in sources."
        ELSE IF ungrounded # {}
        THEN IF NewVariable(ss[Lowest(ungrounded)])
             THEN "REJECTED: New variable introduced in composed explanation."
             ELSE "REJECTED: New technical concept introduced in composed explanation."
        ELSE "PASSED: Composed explanation verified."

ComposerChecked == pc = "END" /\ Called /\ LastStage = "composer"

\* C24 as stated: verify_composed_explanation reports the first violated
\* rule in the order (1) non-empty list, (2) citation present, (3) citation
\* supplied, (4) no new variable, (5) no new technical concept; a missing
\* citation on any sentence is reported before an invalid citation on any
\* other sentence.
C24_Original == ComposerChecked => composer_reason = RuleOrderReason(ComposedSentences)

\* C24 amended: rule (1) is tried first; then rules (2) and (3) are tried
\* together sentence by sentence, so the first sentence that lacks a
\* citation or cites an unsupplied ID decides the verdict; then rules (4)
\* and (5) are tried together sentence by sentence in the same way.
C24_Amended == ComposerChecked => composer_reason = SentenceOrderReason(ComposedSentences)

C24_Witness ==
    /\ ComposerChecked
    /\ Len(ComposedSentences) = 2
    /\ InvalidCitation(ComposedSentences[1]) /\ ~LacksCitation(ComposedSentences[1])
    /\ LacksCitation(ComposedSentences[2])
    /\ composer_reason = "REJECTED: Invalid citation not in sources."

EvidenceVariables ==
    UNION {ParagraphEntities(p).variables : p \in Range(paragraphs)}
    \cup UNION {extract_variables(e.equation_text) : e \in Range(equations)}

EvidenceConcepts ==
    UNION {ParagraphEntities(p).concepts : p \in Range(paragraphs)}
    \cup UNION {extract_concepts(e.equation_text) : e \in Range(equations)}

SentenceVariables(ss) == UNION {extract_variables(ss[i].text) : i \in DOMAIN ss}

NarrativeRejected == composed_explanation = Null /\ ~composer_verification_passed

\* C25 as stated: verify_composed_explanation rejects the narrative
\* whenever a variable detected in a composed sentence is not among the
\* variable entities of the supplied evidence, even when the same string
\* occurs among the evidence's concept entities.
C25_Original ==
    (ComposerChecked /\ SentenceVariables(ComposedSentences) \ EvidenceVariables # {})
        => NarrativeRejected

\* C25 amended: the narrative is rejected whenever a variable detected in
\* a composed sentence is neither a variable entity nor a concept entity of
\* the supplied evidence; a variable that occurs among the evidence's
\* concept entities is accepted, and a narrative whose sentences pass the
\* citation and concept rules and use only such variables is returned.
C25_Amended ==
    ComposerChecked =>
        /\ SentenceVariables(ComposedSentences) \ (EvidenceVariables \cup EvidenceConcepts) # {}
               => NarrativeRejected
        /\ (/\ ComposedSentences # <<>>
            /\ \A i \in DOMAIN ComposedSentences :
                   /\ ~LacksCitation(ComposedSentences[i])
                   /\ ~InvalidCitation(ComposedSentences[i])
                   /\ (extract_concepts(ComposedSentences[i].text) \cap TECHNICAL_CONCEPTS)
                          \subseteq EvidenceVariables \cup EvidenceConcepts
            /\ SentenceVariables(ComposedSentences) \subseteq EvidenceVariables \cup EvidenceConcepts)
               => ~NarrativeRejected

C25_Witness ==
    /\ ComposerChecked
    /\ "layer" \in SentenceVariables(ComposedSentences)
    /\ "layer" \notin EvidenceVariables
    /\ "layer" \in EvidenceConcepts
    /\ composer_verification_passed
    /\ composed_explanation # Null

\* the iteration orders tried on a state: every evidence ID first in turn,
\* the IDs backwards, the entities forwards, backwards and from the middle
CheckedOrders ==
    {[ids |-> a, entities |-> b] :
        a \in {Rotate(IdNames, k) : k \in 0..Len(IdNames) - 1} \cup {Reverse(IdNames)},
        b \in {EntityNames, Reverse(EntityNames), Rotate(EntityNames, 4),
               Reverse(Rotate(EntityNames, 4))}}

\* every name of the state has a place in the iteration orders
OrdersCoverNames ==
    /\ RetrievedIds \subseteq Range(IdNames)
    /\ \A id \in RetrievedIds :
           UnitEntities(id).variables \cup UnitEntities(id).concepts \subseteq Range(EntityNames)

\* C22: the output of evidence_linker_node (order of the groups, members
\* of each group, shared entities) is a function of the supplied paragraph
\* and equation lists only: it is the same whatever order the sets of
\* entities and of evidence IDs are iterated in and whatever order the
\* unions are performed in.
C22_LinkerDeterministic ==
    pc = "composer" =>
        /\ OrdersCoverNames
        /\ \A order \in CheckedOrders :
               linked_evidence = evidence_linker_node(paragraphs, equations, order)

\* two groups whose roots depend on the iteration order
C22_Witness ==
    /\ pc = "composer"
    /\ Len(linked_evidence) = 2
    /\ \E o1, o2 \in CheckedOrders :
           UnionFind(paragraphs, equations, o1) # UnionFind(paragraphs, equations, o2)

(***************************************************************************)
(* The document registry and the document routes: upload, background       *)
(* ingestion, reparse and the document-scoped reads                        *)
(***************************************************************************)
\* DocumentStatus
INGESTING == "ingesting"

READY == "ready"

FAILED == "failed"

MaxTasks == 3          \* background ingestion tasks added in one run

\* the ids uuid4 hands out, and an id no upload was given
RegistryIds == {"doc_a", "doc_b"}

NonexistentId == "nonexistent-id"

\* the Document that the t-th ingestion task parses
ParsedDocuments == <<"parse_1", "parse_2", "parse_3", "parse_4", "parse_5", "parse_6">>

\* DocumentEntry(document_id, title, status, file_path): document and
\* error_message default to None
DocumentEntry(status) == [status |-> status, document |-> None, error_message |-> None]

\* DocumentRegistry.add
add(ents, document_id, entry) == Put(ents, document_id, entry)

\* update_status, its first write: entry.status = status
update_status_status(ents, document_id, status) ==
    IF document_id \in DOMAIN ents THEN [ents EXCEPT ![document_id].status = status]
    ELSE ents

\* update_status, its later writes: a document and an error message that are
\* not None replace the entry's, None leaves the entry's field as it is
update_status_fields(ents, document_id, doc, error_message) ==
    IF document_id \in DOMAIN ents
    THEN [ents EXCEPT ![document_id].document = IF doc # None THEN doc ELSE @,
                      ![document_id].error_message =
                          IF error_message # None THEN error_message ELSE @]
    ELSE ents

\* DocumentRegistry.update_status, under the lock
update_status(ents, document_id, status, doc, error_message) ==
    update_status_fields(update_status_status(ents, document_id, status),
                         document_id, doc, error_message)

\* a response (or an HTTPException) of a document route
HTTP(op, document_id, status_code, detail, doc) ==
    [op |-> op, pc |-> "done", document_id |-> document_id, status_code |-> status_code,
     detail |-> detail, document |-> doc]

\* get_document_or_404 without the check for a document still ingesting
get_document_or_404_without_conflict(ents, document_id) ==
    IF document_id \notin DOMAIN ents
    THEN HTTP("read", document_id, 404, "Document not found", None)
    ELSE LET entry == ents[document_id]
         IN  IF entry.status = FAILED
             THEN HTTP("read", document_id, 500, entry.error_message, None)
             ELSE IF entry.document = None
             THEN HTTP("read", document_id, 500, "Document data missing", None)
             ELSE HTTP("read", document_id, 200, "", entry.document)
\* get_document_or_404 on a registry that no one writes meanwhile
get_document_or_404(ents, document_id) ==
    IF document_id \notin DOMAIN ents
    THEN HTTP("read", document_id, 404, "Document not found", None)
    ELSE LET entry == ents[document_id]
         IN  IF entry.status = INGESTING
             THEN HTTP("read", document_id, 409, "Document is still ingesting", None)
             ELSE IF entry.status = FAILED
             THEN HTTP("read", document_id, 500, entry.error_message, None)
             ELSE IF entry.document = None
             THEN HTTP("read", document_id, 500, "Document data missing", None)
             ELSE HTTP("read", document_id, 200, "", entry.document)

\* what parse_pdf_to_document can do with the stored file of a document
ParseOutcomes(document_id) ==
    IF document_id \in files THEN {"parsed", "raised"} ELSE {"raised"}

\* the update_status call of ingest_document_task number t
TaskUpdate(t, outcome) ==
    IF outcome = "parsed"
    THEN [status |-> READY, document |-> ParsedDocuments[t], error_message |-> None]
    ELSE [status |-> FAILED, document |-> None, error_message |-> "parse error"]

\* ingest_document_task that only logs a failed parse
ingest_document_task_only_logs(ents, document_id, t, outcome) ==
    IF outcome = "parsed"
    THEN update_status(ents, document_id, READY, ParsedDocuments[t], None)
    ELSE ents
\* ingest_document_task: parse, then update_status(READY, document), or
\* update_status(FAILED, error_message) when the parse raised
ingest_document_task(ents, document_id, t, outcome) ==
    LET u == TaskUpdate(t, outcome)
    IN  update_status(ents, document_id, u.status, u.document, u.error_message)

\* background_tasks.add_task(ingest_document_task, document_id, ...)
add_task(document_id) == Append(tasks, [document_id |-> document_id, at |-> "queued",
                                         outcome |-> ""])

\* the tasks of a document that have not finished
InFlight(document_id) ==
    {t \in DOMAIN tasks : tasks[t].document_id = document_id /\ tasks[t].at # "done"}

\* everything the document routes leave alone
Pipeline == <<pc, Inputs, Extraction, WorkflowState>>

InitRegistry ==
    /\ pc = "serving"
    /\ document = "attention_paper"
    /\ paragraph_ids = <<>>
    /\ question = {"What", "is", "attention"}
    /\ include_debug = FALSE
    /\ Unset

\* POST /documents/upload
UploadDocument ==
    \E kind \in {"not_pdf", "save_failed", "saved"}, document_id \in RegistryIds :
        /\ document_id \notin DOMAIN registry
        /\ IF kind = "not_pdf"
           THEN /\ reply' = HTTP("upload", "", 400, "Only PDF files are supported", None)
                /\ UNCHANGED <<registry, files, tasks>>
           ELSE IF kind = "save_failed"
           THEN /\ reply' = HTTP("upload", "", 500, "Failed to save uploaded file", None)
                /\ UNCHANGED <<registry, files, tasks>>
           ELSE /\ lock = 0
                /\ Len(tasks) < MaxTasks
                /\ files' = files \cup {document_id}
                /\ registry' = add(registry, document_id, DocumentEntry(INGESTING))
                /\ tasks' = add_task(document_id)
                /\ reply' = HTTP("upload", document_id, 202, INGESTING, None)
        /\ UNCHANGED <<lock, reader, Pipeline>>

\* POST /documents/{document_id}/reparse
ReparseDocument ==
    \E document_id \in RegistryIds \cup {NonexistentId} :
        /\ IF document_id \notin DOMAIN registry
           THEN /\ reply' = HTTP("reparse", document_id, 404, "Document not found", None)
                /\ UNCHANGED <<registry, tasks>>
           ELSE IF document_id \notin files
           THEN /\ reply' = HTTP("reparse", document_id, 410,
                                 "Source file no longer exists", None)
                /\ UNCHANGED <<registry, tasks>>
           ELSE /\ lock = 0
                /\ Len(tasks) < MaxTasks
                /\ registry' = update_status(registry, document_id, INGESTING, None, None)
                /\ tasks' = add_task(document_id)
                /\ reply' = HTTP("reparse", document_id, 202, INGESTING, None)
        /\ UNCHANGED <<files, lock, reader, Pipeline>>

\* the stored PDF of a document disappears from the storage directory
StoredFileLost ==
    \E document_id \in files :
        /\ files' = files \ {document_id}
        /\ UNCHANGED <<registry, tasks, lock, reader, reply, Pipeline>>

\* ingest_document_task, one of the tasks added, from start to end
IngestDocumentTask ==
    \E t \in DOMAIN tasks :
        /\ tasks[t].at = "queued"
        /\ lock = 0
        /\ \E outcome \in ParseOutcomes(tasks[t].document_id) :
               /\ registry' = ingest_document_task(registry, tasks[t].document_id, t, outcome)
               /\ tasks' = [tasks EXCEPT ![t].at = "done", ![t].outcome = outcome]
        /\ UNCHANGED <<files, lock, reader, reply, Pipeline>>

\* the run of task number t
RunTask(t) ==
    /\ t \in DOMAIN tasks
    /\ tasks[t].at = "queued"
    /\ IngestDocumentTask
    /\ tasks'[t].at = "done"

\* a document-scoped read, its lookup by get_document_or_404
GetDocumentOr404 ==
    \E document_id \in RegistryIds \cup {NonexistentId} :
        /\ reply' = get_document_or_404(registry, document_id)
        /\ UNCHANGED <<registry, files, tasks, lock, reader, Pipeline>>

NextRegistry ==
    \/ UploadDocument
    \/ ReparseDocument
    \/ StoredFileLost
    \/ IngestDocumentTask
    \/ GetDocumentOr404

\* requests and background tasks, each running without interruption
SpecRegistry == InitRegistry /\ [][NextRegistry]_vars

\* the same, with every background task that was added getting to run
SpecRegistryFair == SpecRegistry /\ \A t \in 1..MaxTasks : WF_vars(RunTask(t))

(***************************************************************************)
(* The same routes with the reads and writes of an entry's fields as       *)
(* separate steps: update_status writes under the lock, the reader of      *)
(* get_document_or_404 takes no lock                                       *)
(***************************************************************************)
\* ingest_document_task number t: the parse, then update_status up to
\* entry.status = status
TaskWritesStatus ==
    \E t \in DOMAIN tasks :
        /\ tasks[t].at = "queued"
        /\ lock = 0
        /\ \E outcome \in ParseOutcomes(tasks[t].document_id) :
               /\ registry' = update_status_status(registry, tasks[t].document_id,
                                                   TaskUpdate(t, outcome).status)
               /\ tasks' = [tasks EXCEPT ![t].at = "status_written",
                                         ![t].outcome = outcome]
        /\ lock' = t
        /\ UNCHANGED <<files, reader, reply, Pipeline>>

\* ingest_document_task number t: the rest of update_status
TaskWritesFields ==
    \E t \in DOMAIN tasks :
        /\ tasks[t].at = "status_written"
        /\ lock = t
        /\ LET u == TaskUpdate(t, tasks[t].outcome)
           IN  registry' = update_status_fields(registry, tasks[t].document_id,
                                                u.document, u.error_message)
        /\ tasks' = [tasks EXCEPT ![t].at = "done"]
        /\ lock' = 0
        /\ UNCHANGED <<files, reader, reply, Pipeline>>

Reading(at) == reader.pc = at /\ UNCHANGED <<registry, files, tasks, lock, reply, Pipeline>>

ReaderAt(at) == [reader EXCEPT !.pc = at]

\* entry = DOCUMENT_REGISTRY.get(document_id); if entry is None: 404
ReaderGets ==
    \E document_id \in RegistryIds \cup {NonexistentId} :
        /\ reader.pc \in {"idle", "done"}
        /\ reader' = IF document_id \notin DOMAIN registry
                     THEN HTTP("read", document_id, 404, "Document not found", None)
                     ELSE [NoRequest EXCEPT !.op = "read", !.pc = "status_ingesting",
                                            !.document_id = document_id]
        /\ UNCHANGED <<registry, files, tasks, lock, reply, Pipeline>>

\* if entry.status == DocumentStatus.INGESTING: 409
ReaderChecksIngesting ==
    /\ Reading("status_ingesting")
    /\ reader' = IF registry[reader.document_id].status = INGESTING
                 THEN HTTP("read", reader.document_id, 409,
                           "Document is still ingesting", None)
                 ELSE ReaderAt("status_failed")

\* if entry.status == DocumentStatus.FAILED
ReaderChecksFailed ==
    /\ Reading("status_failed")
    /\ reader' = IF registry[reader.document_id].status = FAILED
                 THEN ReaderAt("error_message")
                 ELSE ReaderAt("document_none")

\* 500 with entry.error_message in its detail
ReaderReadsErrorMessage ==
    /\ Reading("error_message")
    /\ reader' = HTTP("read", reader.document_id, 500,
                      registry[reader.document_id].error_message, None)

\* if entry.document is None: 500
ReaderChecksDocument ==
    /\ Reading("document_none")
    /\ reader' = IF registry[reader.document_id].document = None
                 THEN HTTP("read", reader.document_id, 500, "Document data missing", None)
                 ELSE ReaderAt("return")

\* return entry.document
ReaderReturns ==
    /\ Reading("return")
    /\ reader' = HTTP("read", reader.document_id, 200, "",
                      registry[reader.document_id].document)

NextRegistryThreads ==
    \/ UploadDocument
    \/ ReparseDocument
    \/ StoredFileLost
    \/ TaskWritesStatus
    \/ TaskWritesFields
    \/ ReaderGets
    \/ ReaderChecksIngesting
    \/ ReaderChecksFailed
    \/ ReaderReadsErrorMessage
    \/ ReaderChecksDocument
    \/ ReaderReturns

SpecRegistryThreads == InitRegistry /\ [][NextRegistryThreads]_vars

(***************************************************************************)
(* Properties of the document registry                                     *)
(***************************************************************************)
\* a document-scoped read has just been answered
ReadAnswered == reply' # reply /\ reply'.op = "read"

\* C21: a document-scoped read returns document content only for a registry
\* entry whose status is READY and whose document is present; an unknown
\* document id yields 404, an entry in status INGESTING 409 and an entry in
\* status FAILED an error, after any sequence of uploads, ingestion
\* completions and reparse requests.
C21_ReadsOnlyReady ==
    [][ReadAnswered =>
        LET d == reply'.document_id
            known == d \in DOMAIN registry
        IN  /\ reply'.status_code = 200 <=>
                   (known /\ registry[d].status = READY /\ registry[d].document # None)
            /\ reply'.status_code = 200 => reply'.document = registry[d].document
            /\ reply'.status_code # 200 => reply'.document = None
            /\ ~known => reply'.status_code = 404
            /\ (known /\ registry[d].status = INGESTING) => reply'.status_code = 409
            /\ (known /\ registry[d].status = FAILED) => reply'.status_code >= 500]_vars

\* a read answered with 409 for a document that was parsed and then reparsed
C21_Witness ==
    /\ reply.op = "read"
    /\ reply.status_code = 409
    /\ reply.document_id \in DOMAIN registry
    /\ registry[reply.document_id].status = INGESTING
    /\ registry[reply.document_id].document # None
    /\ \E t \in DOMAIN tasks :
           tasks[t].document_id = reply.document_id /\ tasks[t].outcome = "parsed"

\* a reparse request has just been accepted
ReparseAccepted ==
    /\ reply'.op = "reparse"
    /\ reply'.status_code = 202
    /\ Len(tasks') > Len(tasks)

\* C26: after a reparse request is accepted for a document, its registry
\* entry has status INGESTING and its previously parsed document is cleared
\* (document = None), so that the old parse can no longer be read from the
\* entry during re-ingestion.
C26_ReparseClearsDocument ==
    [][ReparseAccepted =>
        /\ registry'[reply'.document_id].status = INGESTING
        /\ registry'[reply'.document_id].document = None]_vars

\* C28: for any interleaving of reparse requests and background ingestion
\* tasks on one document, whenever the entry's status is READY no ingestion
\* task for that document is still in flight.
C28_ReadyMeansNoTaskInFlight ==
    \A d \in DOMAIN registry : registry[d].status = READY => InFlight(d) = {}

\* C27: under any interleaving of the lock-free reader of
\* get_document_or_404 with a concurrent update_status, the reader never
\* observes an entry whose status is READY while its document is still
\* None, and never returns a document for an entry that was INGESTING or
\* FAILED at the time its document field was read.
C27_ReaderSeesConsistentEntry ==
    [][/\ (reader.pc = "document_none" /\ reader'.pc # "document_none"
            /\ registry[reader.document_id].status = READY) =>
              registry[reader.document_id].document # None
       /\ (reader.pc = "return" /\ reader'.pc = "done") =>
              registry[reader.document_id].status = READY]_vars

\* C29: under fair scheduling of the background tasks, every registry entry
\* that enters status INGESTING, by upload or by reparse, eventually
\* reaches READY or FAILED, whether parsing succeeds or raises.
C29_IngestingEventuallySettles ==
    \A d \in RegistryIds :
        (d \in DOMAIN registry /\ registry[d].status = INGESTING)
            ~> (d \in DOMAIN registry /\ registry[d].status \in {READY, FAILED})

\* a reparsed document whose last ingestion raised, with no task left to run
C29_Witness ==
    \E d \in DOMAIN registry :
        /\ registry[d].status = FAILED
        /\ InFlight(d) = {}
        /\ Cardinality({t \in DOMAIN tasks : tasks[t].document_id = d}) >= 2
        /\ reply.op = "reparse"
        /\ reply.status_code = 202

====
